---- MODULE Spec2Model ----
(***************************************************************************)
(* Streaming speech-synthesis relay subsystem of AiDesktopCompanion:       *)
(*   - the push relays of tts_openai.rs (spawn_speech_stream,              *)
(*     spawn_responses_stream) with the SSE helpers of tts_utils.rs,       *)
(*   - the pull-mode session server of tts_streaming_server.rs.            *)
(* Bytes of text are one-character strings; raw audio bytes are 0..255.    *)
(***************************************************************************)
EXTENDS Integers, Sequences, FiniteSets, TLC

VARIABLES
  streamCounter,  \* STREAM_COUNTER (tts_openai.rs:75)
  stoppers,       \* key set of STREAM_STOPPERS (tts_openai.rs:76)
  rx,             \* per relay id: state of its oneshot channel
  relay,          \* per relay id: the spawned task (pc, upstream, buf)
  events,         \* per relay id: the events emitted on the app handle
  stopRet,        \* what the last openai_stream_stop call returned
  sessions,       \* TtsStreamingServer.sessions: id -> entry
  cancel,         \* per created session: its Arc<AtomicBool> cancel
  started,        \* per created session: its Arc<AtomicBool> started
  everCreated,    \* ids create_session has returned so far
  now,            \* the monotonic clock (Instant::now), in seconds
  janitor,        \* the idle cleanup task spawned by new()
  gets,           \* per connection: its GET /tts-stream/{id} request
  lastOp,         \* the API call of the last step and what it returned
  slot,           \* TTS_STREAMING_SERVER (tts_openai.rs:29): 0 is None
  built,          \* how many TtsStreamingServer::new() calls have returned
  registry,       \* per server built: the ids in its sessions map
  locks,          \* per mutex: the task that holds its guard
  tasks           \* per task: its position in its code and its locals

pushVars == <<streamCounter, stoppers, rx, relay, events, stopRet>>
serverVars == <<sessions, cancel, started, everCreated, now, janitor, gets, lastOp>>
lockVars == <<slot, built, registry, locks, tasks>>
vars == <<streamCounter, stoppers, rx, relay, events, stopRet,
          sessions, cancel, started, everCreated, now, janitor, gets, lastOp,
          slot, built, registry, locks, tasks>>

----------------------------------------------------------------------------
(* Small helpers on sequences and Option values.                           *)

None == [some |-> FALSE]
Some(v) == [some |-> TRUE, val |-> v]

LF == "\n"
CR == "\r"
SP == " "

Drop(s, n) == SubSeq(s, n + 1, Len(s))
Take(s, n) == SubSeq(s, 1, n)

IsPrefix(p, s) == Len(p) <= Len(s) /\ Take(s, Len(p)) = p

Min(S) == CHOOSE x \in S : \A y \in S : x <= y

\* char::is_whitespace restricted to the bytes the model uses
IsWhitespace(c) == c \in {SP, LF, CR, "\t"}

RECURSIVE TrimStart(_)
TrimStart(s) ==
  IF s # <<>> /\ IsWhitespace(Head(s)) THEN TrimStart(Tail(s)) ELSE s

RECURSIVE TrimEnd(_)
TrimEnd(s) ==
  IF s # <<>> /\ IsWhitespace(s[Len(s)]) THEN TrimEnd(Take(s, Len(s) - 1)) ELSE s

Trim(s) == TrimEnd(TrimStart(s))

----------------------------------------------------------------------------
(* SSE helpers, tts_utils.rs:181-206.                                      *)

\* a scan that knows the "\n\n" separator only
BoundaryAt_LfOnly(buf, i) == buf[i] = LF /\ buf[i + 1] = LF

\* The test of the scan at 1-based offset i: "\n\n" there, or "\r\n\r\n"
\* there when i + 3 is inside the buffer.
BoundaryAt(buf, i) ==
  \/ buf[i] = LF /\ buf[i + 1] = LF
  \/ /\ i + 3 <= Len(buf)
     /\ buf[i] = CR /\ buf[i + 1] = LF /\ buf[i + 2] = CR /\ buf[i + 3] = LF

\* for i in 0..buf.len().saturating_sub(1), returning at the first hit
RECURSIVE ScanBoundary(_, _)
ScanBoundary(buf, i) ==
  IF i > Len(buf) - 1 THEN None
  ELSE IF BoundaryAt(buf, i)
    THEN (IF buf[i] = LF THEN Some(i + 1) ELSE Some(i + 3))
  ELSE ScanBoundary(buf, i + 1)

find_sse_event_boundary(buf) == ScanBoundary(buf, 1)

\* the number n of leading "\n" / "\r" bytes; the caller drains them
RECURSIVE LeadingNewlines(_)
LeadingNewlines(buf) ==
  IF buf # <<>> /\ Head(buf) \in {LF, CR}
  THEN 1 + LeadingNewlines(Tail(buf)) ELSE 0

\* a variant that takes one separator byte at most
consume_leading_newlines_One(buf) ==
  LET n == IF buf # <<>> /\ Head(buf) \in {LF, CR} THEN 1 ELSE 0
  IN [n |-> n, buf |-> Drop(buf, n)]

consume_leading_newlines(buf) ==
  LET n == LeadingNewlines(buf)
  IN [n |-> n, buf |-> Drop(buf, n)]

\* the offset of the first "\n" at or after i, 0 when there is none
RECURSIVE FirstLF(_, _)
FirstLF(text, i) ==
  IF i > Len(text) THEN 0
  ELSE IF text[i] = LF THEN i ELSE FirstLF(text, i + 1)

\* str::lines: split at "\n", a "\r" right before the "\n" belongs to the
\* terminator, a final line without terminator is a line, no empty last line.
RECURSIVE Lines(_)
Lines(text) ==
  IF text = <<>> THEN <<>>
  ELSE LET i == FirstLF(text, 1)
       IN IF i = 0 THEN <<text>>
          ELSE LET raw == Take(text, i - 1)
                   line == IF raw # <<>> /\ raw[Len(raw)] = CR
                           THEN Take(raw, Len(raw) - 1) ELSE raw
               IN <<line>> \o Lines(Drop(text, i))

\* "data:"
DataPrefix ==
  <<"d", "a", "t", "a", ":">>

\* a fold in which the first data line wins
RECURSIVE ExtractFold_First(_, _)
ExtractFold_First(lines, data) ==
  IF lines = <<>> THEN data
  ELSE LET line == TrimStart(Head(lines))
       IN ExtractFold_First(Tail(lines),
            IF IsPrefix(DataPrefix, line) /\ ~data.some
            THEN Some(TrimStart(Drop(line, Len(DataPrefix))))
            ELSE data)

\* the loop body of extract_sse_data folded over the lines: the last line
\* that starts (after trim_start) with "data:" wins
RECURSIVE ExtractFold(_, _)
ExtractFold(lines, data) ==
  IF lines = <<>> THEN data
  ELSE LET line == TrimStart(Head(lines))
       IN ExtractFold(Tail(lines),
            IF IsPrefix(DataPrefix, line)
            THEN Some(TrimStart(Drop(line, Len(DataPrefix))))
            ELSE data)

extract_sse_data(ev_bytes) == ExtractFold(Lines(ev_bytes), None)

----------------------------------------------------------------------------
(* The JSON payloads the upstream sends, and serde_json on them            *)
(* (tts_openai.rs:262-267). Any other text is a parse error.               *)

\* [DONE]
DonePayload ==
  <<"[", "D", "O", "N", "E", "]">>
\* {"type":"response.output_audio.delta","delta":"QUJD"}
JsonDelta ==
  <<"{", "\"", "t", "y", "p", "e", "\"", ":", "\"", "r", "e", "s", "p", "o", "n", "s", "e", ".", "o", "u", "t", "p", "u", "t", "_", "a", "u", "d", "i", "o", ".", "d", "e", "l", "t", "a", "\"", ",", "\"", "d", "e", "l", "t", "a", "\"", ":", "\"", "Q", "U", "J", "D", "\"", "}">>
\* {"type":"response.output_audio.delta","audio":"REVG"}
JsonDeltaAudio ==
  <<"{", "\"", "t", "y", "p", "e", "\"", ":", "\"", "r", "e", "s", "p", "o", "n", "s", "e", ".", "o", "u", "t", "p", "u", "t", "_", "a", "u", "d", "i", "o", ".", "d", "e", "l", "t", "a", "\"", ",", "\"", "a", "u", "d", "i", "o", "\"", ":", "\"", "R", "E", "V", "G", "\"", "}">>
\* {"type":"response.output_audio.delta","delta":""}
JsonDeltaEmpty ==
  <<"{", "\"", "t", "y", "p", "e", "\"", ":", "\"", "r", "e", "s", "p", "o", "n", "s", "e", ".", "o", "u", "t", "p", "u", "t", "_", "a", "u", "d", "i", "o", ".", "d", "e", "l", "t", "a", "\"", ",", "\"", "d", "e", "l", "t", "a", "\"", ":", "\"", "\"", "}">>
\* {"type":"response.completed"}
JsonCompleted ==
  <<"{", "\"", "t", "y", "p", "e", "\"", ":", "\"", "r", "e", "s", "p", "o", "n", "s", "e", ".", "c", "o", "m", "p", "l", "e", "t", "e", "d", "\"", "}">>
\* {"type":"response.created"}
JsonOther ==
  <<"{", "\"", "t", "y", "p", "e", "\"", ":", "\"", "r", "e", "s", "p", "o", "n", "s", "e", ".", "c", "r", "e", "a", "t", "e", "d", "\"", "}">>
\* {oops
NotJson ==
  <<"{", "o", "o", "p", "s">>

TypeDelta == "response.output_audio.delta"
TypeCompleted == "response.completed"

\* serde_json::from_str::<Value> (JSON allows whitespace around the value)
\* followed by the field reads: type, delta, audio
ParseJson(text) ==
  LET t == Trim(text)
  IN CASE t = JsonDelta ->
            [ok |-> TRUE, type |-> TypeDelta,
             delta |-> Some(<<"Q", "U", "J", "D">>), audio |-> None]
       [] t = JsonDeltaAudio ->
            [ok |-> TRUE, type |-> TypeDelta,
             delta |-> None, audio |-> Some(<<"R", "E", "V", "G">>)]
       [] t = JsonDeltaEmpty ->
            [ok |-> TRUE, type |-> TypeDelta,
             delta |-> Some(<<>>), audio |-> None]
       [] t = JsonCompleted ->
            [ok |-> TRUE, type |-> TypeCompleted, delta |-> None, audio |-> None]
       [] t = JsonOther ->
            [ok |-> TRUE, type |-> "response.created", delta |-> None, audio |-> None]
       [] OTHER ->
            [ok |-> FALSE, type |-> "", delta |-> None, audio |-> None]

\* val.get("delta") .or_else(val.get("audio")) .unwrap_or("")
DeltaString(val) ==
  IF val.delta.some THEN val.delta.val
  ELSE IF val.audio.some THEN val.audio.val ELSE <<>>

----------------------------------------------------------------------------
(* base64 STANDARD engine (tts_openai.rs:191) on bytes 0..255.             *)

B64Alphabet ==
  <<"A", "B", "C", "D", "E", "F", "G", "H", "I", "J", "K", "L", "M", "N", "O", "P",
    "Q", "R", "S", "T", "U", "V", "W", "X", "Y", "Z", "a", "b", "c", "d", "e", "f",
    "g", "h", "i", "j", "k", "l", "m", "n", "o", "p", "q", "r", "s", "t", "u", "v",
    "w", "x", "y", "z", "0", "1", "2", "3", "4", "5", "6", "7", "8", "9", "+", "/">>

B64Char(n) == B64Alphabet[n + 1]

RECURSIVE Base64Encode(_)
Base64Encode(bytes) ==
  CASE Len(bytes) = 0 -> <<>>
    [] Len(bytes) = 1 ->
         LET n == bytes[1] * 65536
         IN <<B64Char(n \div 262144), B64Char((n \div 4096) % 64), "=", "=">>
    [] Len(bytes) = 2 ->
         LET n == bytes[1] * 65536 + bytes[2] * 256
         IN <<B64Char(n \div 262144), B64Char((n \div 4096) % 64),
              B64Char((n \div 64) % 64), "=">>
    [] OTHER ->
         LET n == bytes[1] * 65536 + bytes[2] * 256 + bytes[3]
         IN <<B64Char(n \div 262144), B64Char((n \div 4096) % 64),
              B64Char((n \div 64) % 64), B64Char(n % 64)>>
            \o Base64Encode(Drop(bytes, 3))

----------------------------------------------------------------------------
(* Events on the app handle: tts:stream:start / chunk / end / cancelled /  *)
(* error, each carrying the relay id.                                      *)

NoMsg == [kind |-> "none"]

Ev(name, id, mime, data, msg) ==
  [name |-> name, id |-> id, mime |-> mime, data |-> data, msg |-> msg]

EvStart(id, mime) == Ev("start", id, mime, <<>>, NoMsg)
EvChunk(id, data) == Ev("chunk", id, "", data, NoMsg)
EvEnd(id) == Ev("end", id, "", <<>>, NoMsg)
EvCancelled(id) == Ev("cancelled", id, "", <<>>, NoMsg)
EvError(id, msg) == Ev("error", id, "", <<>>, msg)

\* format!("request failed: {e}")
MsgRequestFailed == [kind |-> "request failed"]
\* format!("OpenAI error: {status} {body_text}")
MsgStatus(status, body) == [kind |-> "OpenAI error", status |-> status, body |-> body]
\* format!("stream error: {e}")
MsgStreamError == [kind |-> "stream error"]

TerminalNames == {"end", "error", "cancelled"}

----------------------------------------------------------------------------
(* The push relays, tts_openai.rs:75-287.                                  *)

\* format.unwrap_or_else(|| "opus")
FormatArgs == {None, Some("mp3"), Some("wav")}
UnwrapOr(opt, dflt) == IF opt.some THEN opt.val ELSE dflt

\* the mime of the match in openai_stream_start (third component)
SpeechMime(fmt) ==
  IF fmt = "mp3" THEN "audio/mpeg" ELSE "audio/ogg; codecs=opus"

\* the mime of the match in spawn_responses_stream
ResponsesMime(fmt) ==
  CASE fmt = "mp3" -> "audio/mpeg"
    [] fmt = "wav" -> "audio/wav"
    [] OTHER -> "audio/ogg; codecs=opus"

\* an emit that reaches the event sequence of every stream
Emit_Broadcast(id, ev) == events' = [j \in DOMAIN events |-> Append(events[j], ev)]

Emit(id, ev) == events' = [events EXCEPT ![id] = Append(@, ev)]
EmitAll(id, evs) == events' = [events EXCEPT ![id] = @ \o evs]

NewRelay(kind, mime) ==
  [kind |-> kind, pc |-> "send", mime |-> mime, http |-> "pending",
   status |-> 0, body_text |-> "", resp |-> <<>>, up |-> <<>>, buf |-> <<>>]

\* fetch_add(1) + 1, insert the sender under the id, then spawn the task
StartRelay(kind, mime) ==
  LET id == streamCounter + 1
  IN /\ streamCounter' = id
     /\ stoppers' = stoppers \cup {id}
     /\ rx' = (id :> "open") @@ rx
     /\ relay' = (id :> NewRelay(kind, mime)) @@ relay
     /\ events' = (id :> <<>>) @@ events
     /\ UNCHANGED <<stopRet, serverVars, lockVars>>

openai_stream_start(format) ==
  StartRelay("speech", SpeechMime(UnwrapOr(format, "opus")))

responses_stream_start(format) ==
  StartRelay("responses", ResponsesMime(UnwrapOr(format, "opus")))

\* a stop that fires the channel of the id whether or not a sender is stored
openai_stream_stop_Blind(id) ==
  /\ stopRet' = [id |-> id, ret |-> id \in DOMAIN rx]
  /\ stoppers' = stoppers \ {id}
  /\ rx' = IF id \in DOMAIN rx THEN [rx EXCEPT ![id] = "sent"] ELSE rx
  /\ UNCHANGED <<streamCounter, relay, events, serverVars, lockVars>>

\* map.remove(&id); if a sender was there, send(()) and return true
openai_stream_stop(id) ==
  /\ stopRet' = [id |-> id, ret |-> id \in stoppers]
  /\ stoppers' = stoppers \ {id}
  /\ rx' = IF id \in stoppers /\ id \in DOMAIN rx
           THEN [rx EXCEPT ![id] = "sent"] ELSE rx
  /\ UNCHANGED <<streamCounter, relay, events, serverVars, lockVars>>

InPc(id, pc) == id \in DOMAIN relay /\ relay[id].pc = pc

\* client.post(..).send().await returned Err
RelaySendFailed(id) ==
  /\ InPc(id, "send")
  /\ Emit(id, EvError(id, MsgRequestFailed))
  /\ relay' = [relay EXCEPT ![id].pc = "exit", ![id].http = "failed"]
  /\ UNCHANGED <<streamCounter, stoppers, rx, stopRet, serverVars, lockVars>>

\* a relay that reports a non-success status without the body text
RelaySendRejected_StatusOnly(id, status, body) ==
  /\ InPc(id, "send")
  /\ Emit(id, EvError(id, MsgStatus(status, "")))
  /\ relay' = [relay EXCEPT ![id].pc = "exit", ![id].http = "rejected",
                            ![id].status = status, ![id].body_text = body]
  /\ UNCHANGED <<streamCounter, stoppers, rx, stopRet, serverVars, lockVars>>

\* the response has a non-success status (status) and the text body
RelaySendRejected(id, status, body) ==
  /\ InPc(id, "send")
  /\ Emit(id, EvError(id, MsgStatus(status, body)))
  /\ relay' = [relay EXCEPT ![id].pc = "exit", ![id].http = "rejected",
                            ![id].status = status, ![id].body_text = body]
  /\ UNCHANGED <<streamCounter, stoppers, rx, stopRet, serverVars, lockVars>>

\* success: emit start, take resp.bytes_stream(); resp is the body the
\* upstream sends and up the part of it not yet read
RelaySendOk(id, resp) ==
  /\ InPc(id, "send")
  /\ Emit(id, EvStart(id, relay[id].mime))
  /\ relay' = [relay EXCEPT ![id].pc = "loop", ![id].http = "ok",
                            ![id].resp = resp, ![id].up = resp]
  /\ UNCHANGED <<streamCounter, stoppers, rx, stopRet, serverVars, lockVars>>

\* a cancellation branch that emits cancelled and stays in the loop
SelectCancelled_Looping(id) ==
  /\ InPc(id, "loop")
  /\ rx[id] = "sent"
  /\ Emit(id, EvCancelled(id))
  /\ rx' = [rx EXCEPT ![id] = "taken"]
  /\ UNCHANGED <<streamCounter, stoppers, relay, stopRet, serverVars, lockVars>>

\* select!: the branch `_ = &mut rx` (a sent value or a dropped sender)
SelectCancelled(id) ==
  /\ InPc(id, "loop")
  /\ rx[id] # "open"
  /\ Emit(id, EvCancelled(id))
  /\ relay' = [relay EXCEPT ![id].pc = "exit"]
  /\ UNCHANGED <<streamCounter, stoppers, rx, stopRet, serverVars, lockVars>>

\* a read error after which the relay also emits end
SelectReadError_ThenEnd(id) ==
  /\ InPc(id, "loop")
  /\ EmitAll(id, <<EvError(id, MsgStreamError), EvEnd(id)>>)
  /\ relay' = [relay EXCEPT ![id].pc = "exit"]
  /\ UNCHANGED <<streamCounter, stoppers, rx, stopRet, serverVars, lockVars>>

\* select!: stream.next() is Some(Err(e))
SelectReadError(id) ==
  /\ InPc(id, "loop")
  /\ Emit(id, EvError(id, MsgStreamError))
  /\ relay' = [relay EXCEPT ![id].pc = "exit"]
  /\ UNCHANGED <<streamCounter, stoppers, rx, stopRet, serverVars, lockVars>>

\* select!: stream.next() is None
SelectStreamEnd(id) ==
  /\ InPc(id, "loop")
  /\ relay[id].up = <<>>
  /\ Emit(id, EvEnd(id))
  /\ relay' = [relay EXCEPT ![id].pc = "exit"]
  /\ UNCHANGED <<streamCounter, stoppers, rx, stopRet, serverVars, lockVars>>

\* a relay that encodes only the first byte of each chunk
SpeechChunk_Truncating(id) ==
  /\ InPc(id, "loop")
  /\ relay[id].kind = "speech"
  /\ relay[id].up # <<>>
  /\ Emit(id, EvChunk(id, Base64Encode(Take(Head(relay[id].up), 1))))
  /\ relay' = [relay EXCEPT ![id].up = Tail(@)]
  /\ UNCHANGED <<streamCounter, stoppers, rx, stopRet, serverVars, lockVars>>

\* spawn_speech_stream, Some(Ok(chunk)): one chunk event, base64 of the chunk
SpeechChunk(id) ==
  /\ InPc(id, "loop")
  /\ relay[id].kind = "speech"
  /\ relay[id].up # <<>>
  /\ Emit(id, EvChunk(id, Base64Encode(Head(relay[id].up))))
  /\ relay' = [relay EXCEPT ![id].up = Tail(@)]
  /\ UNCHANGED <<streamCounter, stoppers, rx, stopRet, serverVars, lockVars>>

\* an inner loop that also leaves at an event it cannot use
RECURSIVE DrainEvents_Breaking(_, _, _)
DrainEvents_Breaking(id, buf, out) ==
  LET pos == find_sse_event_boundary(buf)
  IN IF ~pos.some THEN [buf |-> buf, out |-> out]
     ELSE LET ev_bytes == Take(buf, pos.val)
              rest == consume_leading_newlines(Drop(buf, pos.val)).buf
              data == extract_sse_data(ev_bytes)
              val == ParseJson(data.val)
          IN IF ~data.some THEN [buf |-> rest, out |-> out]
             ELSE IF Trim(data.val) = DonePayload
               THEN [buf |-> rest, out |-> Append(out, EvEnd(id))]
             ELSE IF ~val.ok THEN [buf |-> rest, out |-> out]
             ELSE IF val.type = TypeDelta
               THEN DrainEvents_Breaking(id, rest,
                      IF DeltaString(val) # <<>>
                      THEN Append(out, EvChunk(id, DeltaString(val))) ELSE out)
             ELSE IF val.type = TypeCompleted
               THEN [buf |-> rest, out |-> Append(out, EvEnd(id))]
             ELSE [buf |-> rest, out |-> out]

\* the inner loop of spawn_responses_stream (lines 256-276): drain complete
\* events from buf; both `break`s after an end event leave this inner loop
RECURSIVE DrainEvents(_, _, _)
DrainEvents(id, buf, out) ==
  LET pos == find_sse_event_boundary(buf)
  IN IF ~pos.some THEN [buf |-> buf, out |-> out]
     ELSE LET ev_bytes == Take(buf, pos.val)
              rest == consume_leading_newlines(Drop(buf, pos.val)).buf
              data == extract_sse_data(ev_bytes)
              val == ParseJson(data.val)
          IN IF ~data.some THEN DrainEvents(id, rest, out)
             ELSE IF Trim(data.val) = DonePayload
               THEN [buf |-> rest, out |-> Append(out, EvEnd(id))]
             ELSE IF ~val.ok THEN DrainEvents(id, rest, out)
             ELSE IF val.type = TypeDelta
               THEN DrainEvents(id, rest,
                      IF DeltaString(val) # <<>>
                      THEN Append(out, EvChunk(id, DeltaString(val))) ELSE out)
             ELSE IF val.type = TypeCompleted
               THEN [buf |-> rest, out |-> Append(out, EvEnd(id))]
             ELSE DrainEvents(id, rest, out)

\* spawn_responses_stream, Some(Ok(chunk)): the next n bytes arrive
ResponsesChunk(id, n) ==
  /\ InPc(id, "loop")
  /\ relay[id].kind = "responses"
  /\ n \in 1..Len(relay[id].up)
  /\ LET chunk == Take(relay[id].up, n)
         d == DrainEvents(id, relay[id].buf \o chunk, <<>>)
     IN /\ EmitAll(id, d.out)
        /\ relay' = [relay EXCEPT ![id].up = Drop(@, n), ![id].buf = d.buf]
  /\ UNCHANGED <<streamCounter, stoppers, rx, stopRet, serverVars, lockVars>>

\* a task that ends without calling on_remove
RelayOnRemove_Keeping(id) ==
  /\ InPc(id, "exit")
  /\ relay' = [relay EXCEPT ![id].pc = "done"]
  /\ UNCHANGED <<streamCounter, stoppers, rx, events, stopRet, serverVars, lockVars>>

\* on_remove(id) at the end of the task: map.remove(&rid) drops the sender
RelayOnRemove(id) ==
  /\ InPc(id, "exit")
  /\ stoppers' = stoppers \ {id}
  /\ rx' = IF id \in stoppers THEN [rx EXCEPT ![id] = "closed"] ELSE rx
  /\ relay' = [relay EXCEPT ![id].pc = "done"]
  /\ UNCHANGED <<streamCounter, events, stopRet, serverVars, lockVars>>

----------------------------------------------------------------------------
(* The session server, tts_streaming_server.rs.                            *)

\* lastOp when the last step was not a call of the server's API
NoOp == [op |-> "none"]

\* ttl and sleep of the idle cleanup task, in seconds
JanitorTtl == 60
JanitorSleep == 60

\* created_at.elapsed()
Age(id) == now - sessions[id].created_at

\* the filter without the test of the started flag
Idle_AnyAge(id, ttl) == Age(id) > ttl

\* the filter of both sweeps: age > ttl && !started
Idle(id, ttl) == Age(id) > ttl /\ ~started[id]

\* the map without the keys in ks
RemoveKeys(map, ks) == [k \in DOMAIN map \ ks |-> map[k]]

\* an id generator that hands out the smallest id not in the registry
NewSessionId_Reusing == Min((1..(Cardinality(everCreated) + 1)) \ DOMAIN sessions)

\* Uuid::new_v4(): a value no earlier call returned
NewSessionId == Cardinality(everCreated) + 1

create_session(format) ==
  LET id == NewSessionId
  IN /\ sessions' = (id :> [format |-> format, created_at |-> now]) @@ sessions
     /\ cancel' = (id :> FALSE) @@ cancel
     /\ started' = (id :> FALSE) @@ started
     /\ everCreated' = everCreated \cup {id}
     /\ lastOp' = [op |-> "create_session", id |-> id]
     /\ UNCHANGED <<now, janitor, gets, pushVars, lockVars>>

\* stop_session that sets the flag but leaves the entry in the registry
stop_session_KeepingEntry(id) ==
  /\ cancel' = IF id \in DOMAIN sessions THEN [cancel EXCEPT ![id] = TRUE] ELSE cancel
  /\ lastOp' = [op |-> "stop_session", id |-> id, ret |-> id \in DOMAIN sessions]
  /\ UNCHANGED <<sessions, started, everCreated, now, janitor, gets, pushVars, lockVars>>

\* under the lock: store cancel when the entry is there, remove it, and
\* return whether it was there
stop_session(id) ==
  /\ cancel' = IF id \in DOMAIN sessions THEN [cancel EXCEPT ![id] = TRUE] ELSE cancel
  /\ sessions' = RemoveKeys(sessions, {id})
  /\ lastOp' = [op |-> "stop_session", id |-> id, ret |-> id \in DOMAIN sessions]
  /\ UNCHANGED <<started, everCreated, now, janitor, gets, pushVars, lockVars>>

\* under one lock: collect the idle keys, remove them, return their number
cleanup_idle(ttl) ==
  LET keys == {k \in DOMAIN sessions : Idle(k, ttl)}
  IN /\ sessions' = RemoveKeys(sessions, keys)
     /\ lastOp' = [op |-> "cleanup_idle", ttl |-> ttl, ret |-> Cardinality(keys)]
     /\ UNCHANGED <<cancel, started, everCreated, now, janitor, gets, pushVars, lockVars>>

\* a cleanup task that wakes and goes back to sleep without collecting
JanitorScan_Napping ==
  /\ janitor.pc = "sleep"
  /\ now >= janitor.wake
  /\ janitor' = [janitor EXCEPT !.wake = now + JanitorSleep]
  /\ UNCHANGED <<sessions, cancel, started, everCreated, now, gets, pushVars, lockVars>>
  /\ lastOp' = NoOp

\* the idle cleanup task, first lock: after the sleep, collect to_remove
JanitorScan ==
  /\ janitor.pc = "sleep"
  /\ now >= janitor.wake
  /\ LET to_remove == {k \in DOMAIN sessions : Idle(k, JanitorTtl)}
     IN janitor' = IF to_remove = {}
                   THEN [janitor EXCEPT !.wake = now + JanitorSleep]
                   ELSE [janitor EXCEPT !.pc = "remove", !.to_remove = to_remove]
  /\ UNCHANGED <<sessions, cancel, started, everCreated, now, gets, pushVars, lockVars>>
  /\ lastOp' = NoOp

\* a cleanup task that also sets the cancel flag of what it removes
JanitorRemove_Cancelling ==
  /\ janitor.pc = "remove"
  /\ sessions' = RemoveKeys(sessions, janitor.to_remove)
  /\ cancel' = [id \in DOMAIN cancel |->
                  cancel[id] \/ id \in janitor.to_remove \cap DOMAIN sessions]
  /\ janitor' = [pc |-> "sleep", wake |-> now + JanitorSleep, to_remove |-> {}]
  /\ UNCHANGED <<started, everCreated, now, gets, pushVars, lockVars>>
  /\ lastOp' = NoOp

\* the idle cleanup task, second lock: remove the collected keys, sleep again
JanitorRemove ==
  /\ janitor.pc = "remove"
  /\ sessions' = RemoveKeys(sessions, janitor.to_remove)
  /\ janitor' = [pc |-> "sleep", wake |-> now + JanitorSleep, to_remove |-> {}]
  /\ UNCHANGED <<cancel, started, everCreated, now, gets, pushVars, lockVars>>
  /\ lastOp' = NoOp

\* the match on session.format for the response's Content-Type
ContentType(format) ==
  CASE format = "mp3" -> "audio/mpeg"
    [] format = "wav" -> "audio/wav"
    [] format = "opus" -> "audio/ogg"
    [] OTHER -> "audio/mpeg"

\* A GET request. Of the handler: sid, pc, the clone's format, the response
\* (status, content_type, body), the unfold state (up, cleaned). For the
\* properties: whether the lookup found the entry, whether the request began
\* after stop_session(sid) returned true / after sid left the registry, the
\* upstream's answer (http, resp), the number of guard.remove calls of the
\* body, the chunks yielded with the cancel flag set, how the body ended.
NewGet(sid) ==
  [sid |-> sid, pc |-> "found", status |-> 0, format |-> "", content_type |-> "",
   resp |-> <<>>, up |-> <<>>, body |-> <<>>, cleaned |-> FALSE,
   found |-> sid \in DOMAIN sessions,
   after_stop |-> sid \in DOMAIN cancel /\ cancel[sid],
   after_removal |-> sid \in everCreated \ DOMAIN sessions,
   http |-> "none", removes |-> 0, late |-> 0, term |-> "none"]

GetIn(h, pc) == h \in DOMAIN gets /\ gets[h].pc = pc

\* a lookup that goes on with a default session when the id is absent
GetLookup_Unchecked(h, sid) ==
  /\ h \notin DOMAIN gets
  /\ gets' = (h :> [NewGet(sid) EXCEPT !.format = IF sid \in DOMAIN sessions
                                                  THEN sessions[sid].format
                                                  ELSE "mp3"]) @@ gets
  /\ UNCHANGED <<sessions, cancel, started, everCreated, now, janitor, pushVars, lockVars>>
  /\ lastOp' = NoOp

\* handle_tts_stream, lines 177-193: look the session up under the lock and
\* clone it; 404 when it is absent
GetLookup(h, sid) ==
  /\ h \notin DOMAIN gets
  /\ gets' = (h :> IF sid \in DOMAIN sessions
                   THEN [NewGet(sid) EXCEPT !.format = sessions[sid].format]
                   ELSE [NewGet(sid) EXCEPT !.pc = "done", !.status = 404]) @@ gets
  /\ UNCHANGED <<sessions, cancel, started, everCreated, now, janitor, pushVars, lockVars>>
  /\ lastOp' = NoOp

\* line 196, outside the lock: started_flag.store(true); then the upstream
\* request is sent
GetMarkStarted(h) ==
  /\ GetIn(h, "found")
  /\ started' = [started EXCEPT ![gets[h].sid] = TRUE]
  /\ gets' = [gets EXCEPT ![h].pc = "send"]
  /\ UNCHANGED <<sessions, cancel, everCreated, now, janitor, pushVars, lockVars>>
  /\ lastOp' = NoOp

\* lines 229-234: send() returned Err
GetUpstreamFailed(h) ==
  /\ GetIn(h, "send")
  /\ gets' = [gets EXCEPT ![h].pc = "done", ![h].status = 500,
                          ![h].http = "failed"]
  /\ UNCHANGED <<sessions, cancel, started, everCreated, now, janitor, pushVars, lockVars>>
  /\ lastOp' = NoOp

\* a handler that answers an upstream rejection like a failed request
GetUpstreamRejected_As500(h) ==
  /\ GetIn(h, "send")
  /\ gets' = [gets EXCEPT ![h].pc = "done", ![h].status = 500,
                          ![h].http = "rejected"]
  /\ UNCHANGED <<sessions, cancel, started, everCreated, now, janitor, pushVars, lockVars>>
  /\ lastOp' = NoOp

\* lines 237-244: the upstream status is not a success
GetUpstreamRejected(h) ==
  /\ GetIn(h, "send")
  /\ gets' = [gets EXCEPT ![h].pc = "done", ![h].status = 502,
                          ![h].http = "rejected"]
  /\ UNCHANGED <<sessions, cancel, started, everCreated, now, janitor, pushVars, lockVars>>
  /\ lastOp' = NoOp

\* lines 246-295: 200 with the Content-Type of the format and the unfold
\* stream as body; resp is what the upstream will yield
GetUpstreamOk(h, resp) ==
  /\ GetIn(h, "send")
  /\ gets' = [gets EXCEPT ![h].pc = "poll", ![h].status = 200, ![h].http = "ok",
                          ![h].content_type = ContentType(gets[h].format),
                          ![h].resp = resp, ![h].up = resp]
  /\ UNCHANGED <<sessions, cancel, started, everCreated, now, janitor, pushVars, lockVars>>
  /\ lastOp' = NoOp

\* a body that ends without removing its session
BodyCleanup_Forgetting(h, term) ==
  /\ sessions' = sessions
  /\ gets' = [gets EXCEPT ![h].pc = "closed", ![h].term = term]

\* `if !cleaned { guard.remove(&sid); cleaned = true; }` and the end of the body
BodyCleanup(h, term) ==
  /\ sessions' = IF gets[h].cleaned THEN sessions
                 ELSE RemoveKeys(sessions, {gets[h].sid})
  /\ gets' = [gets EXCEPT ![h].pc = "closed", ![h].term = term,
                          ![h].cleaned = TRUE,
                          ![h].removes = IF gets[h].cleaned THEN @ ELSE @ + 1]

\* a closure that starts the upstream read without testing the cancel flag
BodyPoll_Unchecked(h) ==
  /\ GetIn(h, "poll")
  /\ gets' = [gets EXCEPT ![h].pc = "pull"]
  /\ UNCHANGED <<sessions, cancel, started, everCreated, now, janitor, pushVars, lockVars>>
  /\ lastOp' = NoOp

\* lines 259-266: the closure starts with the test of the cancel flag; when
\* it is clear the upstream read up.next() is started
BodyPoll(h) ==
  /\ GetIn(h, "poll")
  /\ IF cancel[gets[h].sid]
     THEN BodyCleanup(h, "cancelled")
     ELSE gets' = [gets EXCEPT ![h].pc = "pull"] /\ UNCHANGED sessions
  /\ UNCHANGED <<cancel, started, everCreated, now, janitor, pushVars, lockVars>>
  /\ lastOp' = NoOp

\* a read whose chunk is consumed but not yielded
BodyNextChunk_Dropping(h) ==
  /\ GetIn(h, "pull")
  /\ gets[h].up # <<>>
  /\ gets' = [gets EXCEPT ![h].pc = "poll", ![h].up = Tail(@)]
  /\ UNCHANGED <<sessions, cancel, started, everCreated, now, janitor, pushVars, lockVars>>
  /\ lastOp' = NoOp

\* line 268: the read returns Some(Ok(bytes)), which the body yields;
\* late counts the chunks yielded while the cancel flag was already set
BodyNextChunk(h) ==
  /\ GetIn(h, "pull")
  /\ gets[h].up # <<>>
  /\ gets' = [gets EXCEPT ![h].pc = "poll",
                          ![h].body = Append(@, Head(gets[h].up)),
                          ![h].up = Tail(@),
                          ![h].late = IF cancel[gets[h].sid] THEN @ + 1 ELSE @]
  /\ UNCHANGED <<sessions, cancel, started, everCreated, now, janitor, pushVars, lockVars>>
  /\ lastOp' = NoOp

\* lines 269-276: the read returns Some(Err(e)); the body yields the error,
\* on which hyper gives up the response and drops the stream
BodyNextError(h) ==
  /\ GetIn(h, "pull")
  /\ BodyCleanup(h, "error")
  /\ UNCHANGED <<cancel, started, everCreated, now, janitor, pushVars, lockVars>>
  /\ lastOp' = NoOp

\* lines 277-284: the read returns None
BodyNextNone(h) ==
  /\ GetIn(h, "pull")
  /\ gets[h].up = <<>>
  /\ BodyCleanup(h, "end")
  /\ UNCHANGED <<cancel, started, everCreated, now, janitor, pushVars, lockVars>>
  /\ lastOp' = NoOp

\* the client goes away: hyper drops the body stream without polling it again
ClientDisconnect(h) ==
  /\ h \in DOMAIN gets
  /\ gets[h].pc \in {"poll", "pull"}
  /\ gets' = [gets EXCEPT ![h].pc = "closed", ![h].term = "dropped"]
  /\ UNCHANGED <<sessions, cancel, started, everCreated, now, janitor, pushVars, lockVars>>
  /\ lastOp' = NoOp

----------------------------------------------------------------------------
(* WAV transcoding, tts_utils.rs:17-175. An f32 is a sign s, a 24-bit      *)
(* mantissa m (0, or 2^23 <= m < 2^24) and an exponent e, standing for     *)
(* s * m * 2^(e - 23); every operation rounds to nearest, ties to even, as *)
(* the hardware does. Values stay far from the subnormal and the infinite. *)

Pow2(k) == 2 ^ k

RECURSIVE BitLen(_)
BitLen(n) == IF n = 0 THEN 0 ELSE 1 + BitLen(n \div 2)

Clamp(x, lo, hi) == IF x < lo THEN lo ELSE IF x > hi THEN hi ELSE x
Abs(x) == IF x < 0 THEN -x ELSE x
Sign(x) == IF x < 0 THEN -1 ELSE 1

F32Zero == [s |-> 1, m |-> 0, e |-> 0]

\* mantissa m (below 2^24) rounded up or not, renormalised on a carry
F32Pack(s, m, e, up) ==
  IF ~up THEN [s |-> s, m |-> m, e |-> e]
  ELSE IF m + 1 = Pow2(24) THEN [s |-> s, m |-> Pow2(23), e |-> e + 1]
  ELSE [s |-> s, m |-> m + 1, e |-> e]

\* ties-to-even: round up on more than half, or on half with an odd mantissa
RoundUp(m, rem, unit) == 2 * rem > unit \/ (2 * rem = unit /\ m % 2 = 1)

\* n as f32, for an integer n
F32FromInt(n) ==
  LET a == Abs(n)
      len == BitLen(a)
  IN IF a = 0 THEN F32Zero
     ELSE IF len <= 24
       THEN [s |-> Sign(n), m |-> a * Pow2(24 - len), e |-> len - 1]
     ELSE LET unit == Pow2(len - 24)
          IN F32Pack(Sign(n), a \div unit, len - 1,
                     RoundUp(a \div unit, a % unit, unit))

\* x * 2^k, exact
F32Scale(x, k) == IF x.m = 0 THEN x ELSE [x EXCEPT !.e = @ + k]

\* quotient and remainder of a * b by c without a wide product
\* (0 <= a < c < 2^30), by the bits of b
RECURSIVE MulDiv(_, _, _)
MulDiv(a, b, c) ==
  IF b = 0 THEN [q |-> 0, r |-> 0]
  ELSE LET h == MulDiv(a, b \div 2, c)
           r2 == 2 * h.r
           q3 == 2 * h.q + (IF r2 >= c THEN 1 ELSE 0)
           r3 == (IF r2 >= c THEN r2 - c ELSE r2) + (IF b % 2 = 1 THEN a ELSE 0)
       IN [q |-> q3 + (IF r3 >= c THEN 1 ELSE 0),
           r |-> IF r3 >= c THEN r3 - c ELSE r3]

\* x * y: the 48-bit product of the mantissas in 12-bit limbs, as
\* high * 2^24 + low, then rounded to 24 bits
F32Mul(x, y) ==
  IF x.m = 0 \/ y.m = 0 THEN F32Zero
  ELSE LET a1 == x.m \div 4096
           a0 == x.m % 4096
           b1 == y.m \div 4096
           b0 == y.m % 4096
           p1 == a1 * b0 + a0 * b1
           lo == a0 * b0 + (p1 % 4096) * 4096
           high == a1 * b1 + (p1 \div 4096) + (lo \div Pow2(24))
           low == lo % Pow2(24)
           s == x.s * y.s
       IN IF high >= Pow2(23)
          THEN F32Pack(s, high, x.e + y.e + 1, RoundUp(high, low, Pow2(24)))
          ELSE LET m == 2 * high + (low \div Pow2(23))
               IN F32Pack(s, m, x.e + y.e, RoundUp(m, low % Pow2(23), Pow2(23)))

\* x / y, for y not zero
F32Div(x, y) ==
  IF x.m = 0 THEN F32Zero
  ELSE LET s == x.s * y.s
       IN IF x.m >= y.m
          THEN LET d == MulDiv(x.m - y.m, Pow2(23), y.m)
               IN F32Pack(s, Pow2(23) + d.q, x.e - y.e,
                          RoundUp(d.q, d.r, y.m))
          ELSE LET d == MulDiv(x.m, Pow2(24), y.m)
               IN F32Pack(s, d.q, x.e - y.e - 1, RoundUp(d.q, d.r, y.m))

\* the integer part and the fraction (over unit) of |x|, for |x| < 2^24
F32Parts(x) ==
  IF x.m = 0 \/ x.e < -1 THEN [q |-> 0, rem |-> 0, unit |-> 1]
  ELSE IF x.e >= 23 THEN [q |-> x.m * Pow2(x.e - 23), rem |-> 0, unit |-> 1]
  ELSE LET unit == Pow2(23 - x.e)
       IN [q |-> x.m \div unit, rem |-> x.m % unit, unit |-> unit]

\* x.round(), as an integer: half away from zero
F32Round(x) ==
  LET p == F32Parts(x)
  IN x.s * (IF 2 * p.rem >= p.unit /\ p.rem > 0 THEN p.q + 1 ELSE p.q)

\* x as an integer type: the fraction is dropped
F32Trunc(x) == x.s * F32Parts(x).q

\* x.clamp(-1.0, 1.0)
F32ClampUnit(x) ==
  IF x.m # 0 /\ x.e >= 0 THEN [s |-> x.s, m |-> Pow2(23), e |-> 0] ELSE x

\* (2f32).powf(r as f32 / 10.0) for r = -10 .. 10
F32Factor(r) ==
  LET tab == << <<8388608, -1>>, <<8990688, -1>>, <<9635980, -1>>,
                <<10327588, -1>>, <<11068834, -1>>, <<11863283, -1>>,
                <<12714752, -1>>, <<13627334, -1>>, <<14605415, -1>>,
                <<15653696, -1>>, <<8388608, 0>>, <<8990687, 0>>,
                <<9635980, 0>>, <<10327588, 0>>, <<11068835, 0>>,
                <<11863283, 0>>, <<12714752, 0>>, <<13627334, 0>>,
                <<14605415, 0>>, <<15653696, 0>>, <<8388608, 1>> >>
  IN [s |-> 1, m |-> tab[r + 11][1], e |-> tab[r + 11][2]]

\* a scaling of the rate that drops the fraction instead of rounding
ScaleRate_Truncating(in_rate, r) ==
  F32Trunc(F32Mul(F32FromInt(in_rate), F32Factor(r)))

\* ((out_rate as f32) * factor).round() as u32
ScaleRate(in_rate, r) ==
  F32Round(F32Mul(F32FromInt(in_rate), F32Factor(r)))

\* the output sample rate of apply_wav_gain_and_rate and of the fallback of
\* write_pcm16_wav_from_any: scaled and clamped only when r is not 0
OutRate(in_rate, rate) ==
  LET r == Clamp(rate, -10, 10)
  IN IF r # 0 THEN Clamp(ScaleRate(in_rate, r), 8000, 192000)
     ELSE in_rate

\* (volume as f32 / 100.0).max(0.0)
Gain(volume) == F32Div(F32FromInt(volume), F32FromInt(100))

\* ((v as f32) * gain).clamp(i16::MIN as f32, i16::MAX as f32) as i16
ScaleInt16(v, volume) ==
  Clamp(F32Trunc(F32Mul(F32FromInt(v), Gain(volume))), -32768, 32767)

\* a scaling that leaves the gain out
ScaleUnit_Ungained(x, volume) ==
  F32Round(F32Mul(F32ClampUnit(x), F32FromInt(32767)))

\* ((x * gain).clamp(-1.0, 1.0) * 32767.0).round() as i16
ScaleUnit(x, volume) ==
  F32Round(F32Mul(F32ClampUnit(F32Mul(x, Gain(volume))), F32FromInt(32767)))

\* float samples are written in 2^-FloatBits: with 2, 4 stands for 1.0
FloatBits == 2

\* what reader.samples::<i16>() yields for a stored sample: hound reads the
\* unsigned 8-bit samples of a WAV as signed (stored - 128), unscaled (the
\* variant hands out the stored byte)
HoundSample_Unsigned(wav, x) == x

HoundSample(wav, x) == IF wav.bits_per_sample = 8 THEN x - 128 ELSE x

\* ((1i64 << (bits - 1)) - 1) as f32
MaxVal(bits) ==
  IF bits = 32 THEN [s |-> 1, m |-> Pow2(23), e |-> 31]
  ELSE F32FromInt(Pow2(bits - 1) - 1)

\* one sample through the match on in_spec.sample_format
ConvertSample(wav, x, volume) ==
  IF wav.sample_format = "Float"
    THEN ScaleUnit(F32Scale(F32FromInt(x), -FloatBits), volume)
  ELSE IF wav.bits_per_sample <= 16
    THEN ScaleInt16(HoundSample(wav, x), volume)
  ELSE ScaleUnit(F32Div(F32FromInt(x), MaxVal(wav.bits_per_sample)), volume)

WavFile(channels, sample_rate, samples) ==
  [channels |-> channels, sample_rate |-> sample_rate, bits_per_sample |-> 16,
   sample_format |-> "Int", samples |-> samples]

\* apply_wav_gain_and_rate on bytes that hound reads as wav
apply_wav_gain_and_rate(wav, rate, volume) ==
  WavFile(wav.channels, OutRate(wav.sample_rate, rate),
          [i \in DOMAIN wav.samples |-> ConvertSample(wav, wav.samples[i], volume)])

\* the sample formats the fallback of write_pcm16_wav_from_any converts
DecodedFormats == {"F32", "S16", "S32", "U8"}

\* the samples of a decoded buffer as f32, by the arm of the match on buf
PacketPcm(p) ==
  [i \in DOMAIN p.samples |->
     CASE p.fmt = "F32" -> F32Scale(F32FromInt(p.samples[i]), -FloatBits)
       [] p.fmt = "S16" -> F32Div(F32FromInt(p.samples[i]), F32FromInt(32768))
       [] p.fmt = "S32" -> F32Div(F32FromInt(p.samples[i]), MaxVal(32))
       [] p.fmt = "U8" ->
            F32Div(F32FromInt(p.samples[i] - 128), F32FromInt(128))]

\* a decode loop that gives up at the first packet the decoder rejects
RECURSIVE DecodeLoop_Stopping(_, _)
DecodeLoop_Stopping(packets, st) ==
  IF packets = <<>> THEN st
  ELSE LET p == Head(packets)
       IN IF ~p.track THEN DecodeLoop_Stopping(Tail(packets), st)
          ELSE IF p.decode = "err" \/ p.fmt \notin DecodedFormats THEN st
          ELSE DecodeLoop_Stopping(Tail(packets),
                 [rate |-> p.rate, channels |-> p.channels,
                  pcm |-> st.pcm \o PacketPcm(p)])

\* the packet loop of write_pcm16_wav_from_any: a packet of another track, a
\* packet the decoder rejects and a buffer of another sample format add
\* nothing; a converted buffer also sets out_rate and out_channels
RECURSIVE DecodeLoop(_, _)
DecodeLoop(packets, st) ==
  IF packets = <<>> THEN st
  ELSE LET p == Head(packets)
       IN IF ~p.track \/ p.decode = "err" \/ p.fmt \notin DecodedFormats
          THEN DecodeLoop(Tail(packets), st)
          ELSE DecodeLoop(Tail(packets),
                 [rate |-> p.rate, channels |-> p.channels,
                  pcm |-> st.pcm \o PacketPcm(p)])

NoFile == WavFile(0, 0, <<>>)

WriteOk(file) == [ok |-> TRUE, err |-> "", written |-> TRUE, file |-> file]
WriteErr(msg) == [ok |-> FALSE, err |-> msg, written |-> FALSE, file |-> NoFile]

\* write_pcm16_wav_from_any: input is what the bytes hold, a WAV that hound
\* reads to the end, or something else, which the probe may know and which
\* then is a default track (sample_rate.unwrap_or(44100),
\* channels.unwrap_or(1)) and its packets
write_pcm16_wav_from_any(input, rate, volume) ==
  IF input.kind = "wav"
    THEN WriteOk(apply_wav_gain_and_rate(input.wav, rate, volume))
  ELSE IF ~input.probe THEN WriteErr("audio probe failed")
  ELSE LET d == DecodeLoop(input.packets,
                  [rate |-> input.sample_rate, channels |-> input.channels,
                   pcm |-> <<>>])
       IN IF d.pcm = <<>> THEN WriteErr("decode produced no samples")
          ELSE WriteOk(WavFile(d.channels, OutRate(d.rate, rate),
                         [i \in DOMAIN d.pcm |-> ScaleUnit(d.pcm[i], volume)]))

----------------------------------------------------------------------------
(* What the upstream may answer.                                           *)

MaxSpeechChunks == 2

\* raw audio chunks of /audio/speech: "ABC", one byte, two bytes
SpeechChunkValues == {<<65, 66, 67>>, <<255>>, <<72, 105>>}

RECURSIVE SeqsUpTo(_, _)
SeqsUpTo(S, n) ==
  IF n = 0 THEN {<<>>}
  ELSE LET shorter == SeqsUpTo(S, n - 1)
       IN shorter \cup {Append(q, x) : q \in shorter, x \in S}

SpeechUpstreams == SeqsUpTo(SpeechChunkValues, MaxSpeechChunks)

RejectStatuses == {403, 500}
RejectBodies == {"bad key"}

SseEvent(payload) == DataPrefix \o <<SP>> \o payload \o <<LF, LF>>
SseEventCrlf(payload) == DataPrefix \o payload \o <<CR, LF, CR, LF>>
\* an event without a data line (a comment)
SseComment == <<":", "k", LF, LF>>

\* byte streams of /responses; the network cuts them into chunks anywhere
SseStreams ==
  { <<>>,
    SseEvent(JsonDelta) \o SseEvent(JsonCompleted),
    SseEvent(DonePayload) \o SseEvent(JsonDeltaAudio),
    SseEventCrlf(JsonCompleted) \o SseEvent(DonePayload),
    SseComment \o SseEvent(JsonOther) \o SseEvent(NotJson),
    SseEvent(JsonDeltaEmpty) \o Take(SseEvent(JsonDelta), 20),
    SseEvent(DonePayload) \o SseEvent(DonePayload) }

MaxSessions == 2
MaxBodyChunks == 2
MaxTicks == 2
TickSecs == 40

SessionIds == 1..MaxSessions
\* the connections on which a GET arrives
Conns == {1}
SessionFormats == {"mp3", "opus"}
CleanupTtls == {0, 60}

\* bodies of /audio/speech for the session server: "ABC", "D", "E", ...
BodyChunkAt(i) == IF i = 1 THEN <<65, 66, 67>> ELSE <<66 + i>>
GetUpstreams == {[i \in 1..n |-> BodyChunkAt(i)] : n \in 0..MaxBodyChunks}

\* time passes
Tick ==
  /\ now < MaxTicks * TickSecs
  /\ now' = now + TickSecs
  /\ UNCHANGED <<sessions, cancel, started, everCreated, janitor, gets, pushVars, lockVars>>
  /\ lastOp' = NoOp

----------------------------------------------------------------------------
(* The mutexes, one guard at a time: the server singleton of               *)
(* tts_openai.rs with the calls that go through it, and the tasks that use *)
(* the sessions map of a server or the stopper table. A step is a lock(),  *)
(* the code run under a guard up to its drop, or the return of an await.   *)
(* What the tasks compute is left out; which guards they hold is not.      *)

\* the relay of the first start call
FirstRelay == 1

MaxCallers == 2

Callers == 1..MaxCallers

NoTask == [kind |-> "none", n |-> 0]
CallerTask(c) == [kind |-> "caller", n |-> c]
StopperTask == [kind |-> "stopper", n |-> 0]
JanitorTask(k) == [kind |-> "janitor", n |-> k]
HandlerTask == [kind |-> "handler", n |-> 0]
RelayTask == [kind |-> "relay", n |-> 0]
PressTask == [kind |-> "press", n |-> 0]

InitLocks ==
  /\ slot = 0
  /\ built = 0
  /\ registry = <<>>
  /\ locks = [singleton |-> NoTask, stoppers |-> NoTask, sessions |-> <<>>]
  /\ tasks = [callers |-> [c \in Callers |->
                            [pc |-> "idle", need_init |-> FALSE, server |-> 0,
                             home |-> 0]],
              stopper |-> [pc |-> "idle", sid |-> 0, server |-> 0, ret |-> "none"],
              janitors |-> <<>>,
              handler |-> [pc |-> "idle", server |-> 0, sid |-> 0],
              relay |-> [pc |-> "idle"],
              press |-> [pc |-> "idle", ret |-> FALSE],
              starts |-> <<>>,
              admin |-> [pc |-> "idle", holds |-> FALSE, ttl |-> 0, keys |-> {},
                         before |-> 0]]

\* create_stream_session is invoked: ensure_streaming_server starts
CallerInvoke(c) ==
  /\ tasks.callers[c].pc = "idle"
  /\ tasks' = [tasks EXCEPT !.callers[c].pc = "check_lock"]
  /\ UNCHANGED <<slot, built, registry, locks, pushVars, serverVars>>

\* ensure_streaming_server: TTS_STREAMING_SERVER.lock() of the first block
EnsureCheckLock(c) ==
  /\ tasks.callers[c].pc = "check_lock"
  /\ locks.singleton = NoTask
  /\ locks' = [locks EXCEPT !.singleton = CallerTask(c)]
  /\ tasks' = [tasks EXCEPT !.callers[c].pc = "checking"]
  /\ UNCHANGED <<slot, built, registry, pushVars, serverVars>>

\* an ensure_streaming_server that keeps the guard of its check
EnsureCheck_Holding(c) ==
  /\ tasks.callers[c].pc = "checking"
  /\ tasks' = [tasks EXCEPT !.callers[c].need_init = (slot = 0),
                            !.callers[c].pc = IF slot = 0 THEN "new" ELSE "create_lock"]
  /\ locks' = [locks EXCEPT !.singleton = IF slot = 0 THEN @ ELSE NoTask]
  /\ UNCHANGED <<slot, built, registry, pushVars, serverVars>>

\* ensure_streaming_server: guard.is_none(), and the guard is dropped at the
\* end of the block
EnsureCheck(c) ==
  /\ tasks.callers[c].pc = "checking"
  /\ tasks' = [tasks EXCEPT !.callers[c].need_init = (slot = 0),
                            !.callers[c].pc = IF slot = 0 THEN "new" ELSE "create_lock"]
  /\ locks' = [locks EXCEPT !.singleton = NoTask]
  /\ UNCHANGED <<slot, built, registry, pushVars, serverVars>>

\* TtsStreamingServer::new().await returns: a new sessions map, a listener
\* on a port of its own and a cleanup task on that map
ServerNew(c) ==
  /\ tasks.callers[c].pc = "new"
  /\ built' = built + 1
  /\ registry' = Append(registry, {})
  /\ locks' = [locks EXCEPT !.sessions = Append(@, NoTask)]
  /\ tasks' = [tasks EXCEPT !.callers[c].server = built + 1,
                            !.callers[c].pc = "store_lock",
                            !.janitors = Append(@, [pc |-> "sleep", to_remove |-> {}])]
  /\ UNCHANGED <<slot, pushVars, serverVars>>

\* ensure_streaming_server: TTS_STREAMING_SERVER.lock() before the store
EnsureStoreLock(c) ==
  /\ tasks.callers[c].pc = "store_lock"
  /\ locks.singleton = NoTask
  /\ locks' = [locks EXCEPT !.singleton = CallerTask(c)]
  /\ tasks' = [tasks EXCEPT !.callers[c].pc = "storing"]
  /\ UNCHANGED <<slot, built, registry, pushVars, serverVars>>

\* ensure_streaming_server: *guard = Some(server), whatever the slot holds
EnsureStore(c) ==
  /\ tasks.callers[c].pc = "storing"
  /\ slot' = tasks.callers[c].server
  /\ locks' = [locks EXCEPT !.singleton = NoTask]
  /\ tasks' = [tasks EXCEPT !.callers[c].pc = "create_lock"]
  /\ UNCHANGED <<built, registry, pushVars, serverVars>>

\* create_stream_session: TTS_STREAMING_SERVER.lock() after ensure returned
CreateLock(c) ==
  /\ tasks.callers[c].pc = "create_lock"
  /\ locks.singleton = NoTask
  /\ locks' = [locks EXCEPT !.singleton = CallerTask(c)]
  /\ tasks' = [tasks EXCEPT !.callers[c].pc = "sessions_lock"]
  /\ UNCHANGED <<slot, built, registry, pushVars, serverVars>>

\* create_session of the server in the slot: self.sessions.lock()
CreateSessionsLock(c) ==
  /\ tasks.callers[c].pc = "sessions_lock"
  /\ locks.sessions[slot] = NoTask
  /\ locks' = [locks EXCEPT !.sessions[slot] = CallerTask(c)]
  /\ tasks' = [tasks EXCEPT !.callers[c].pc = "inserting"]
  /\ UNCHANGED <<slot, built, registry, pushVars, serverVars>>

\* create_session inserts and returns; create_stream_session returns the
\* url and drops the guard of the slot
CreateInsert(c) ==
  /\ tasks.callers[c].pc = "inserting"
  /\ registry' = [registry EXCEPT ![slot] = @ \cup {c}]
  /\ locks' = [locks EXCEPT !.sessions[slot] = NoTask, !.singleton = NoTask]
  /\ tasks' = [tasks EXCEPT !.callers[c].home = slot, !.callers[c].pc = "done"]
  /\ UNCHANGED <<slot, built, pushVars, serverVars>>

\* stop_stream_session(sid) is invoked (stream_session_count and
\* stream_cleanup_idle take the same guards in the same order)
StopInvoke(sid) ==
  /\ tasks.stopper.pc \in {"idle", "done"}
  /\ tasks' = [tasks EXCEPT !.stopper = [pc |-> "slot_lock", sid |-> sid,
                                         server |-> 0, ret |-> "none"]]
  /\ UNCHANGED <<slot, built, registry, locks, pushVars, serverVars>>

\* stop_stream_session: TTS_STREAMING_SERVER.lock()
StopSlotLock ==
  /\ tasks.stopper.pc = "slot_lock"
  /\ locks.singleton = NoTask
  /\ locks' = [locks EXCEPT !.singleton = StopperTask]
  /\ tasks' = [tasks EXCEPT !.stopper.pc = "holding"]
  /\ UNCHANGED <<slot, built, registry, pushVars, serverVars>>

\* stop_stream_session: the slot is None, Err is returned
StopNoServer ==
  /\ tasks.stopper.pc = "holding"
  /\ slot = 0
  /\ locks' = [locks EXCEPT !.singleton = NoTask]
  /\ tasks' = [tasks EXCEPT !.stopper.pc = "done", !.stopper.ret = "err"]
  /\ UNCHANGED <<slot, built, registry, pushVars, serverVars>>

\* stop_session of the server in the slot: self.sessions.lock()
StopSessionsLock ==
  /\ tasks.stopper.pc = "holding"
  /\ slot # 0
  /\ locks.sessions[slot] = NoTask
  /\ locks' = [locks EXCEPT !.sessions[slot] = StopperTask]
  /\ tasks' = [tasks EXCEPT !.stopper.pc = "removing"]
  /\ UNCHANGED <<slot, built, registry, pushVars, serverVars>>

\* stop_session removes from the map of the server in the slot and returns
StopRemove ==
  /\ tasks.stopper.pc = "removing"
  /\ registry' = [registry EXCEPT ![slot] = @ \ {tasks.stopper.sid}]
  /\ locks' = [locks EXCEPT !.sessions[slot] = NoTask, !.singleton = NoTask]
  /\ tasks' = [tasks EXCEPT !.stopper.pc = "done", !.stopper.server = slot,
                            !.stopper.ret = IF tasks.stopper.sid \in registry[slot]
                                            THEN "true" ELSE "false"]
  /\ UNCHANGED <<slot, built, pushVars, serverVars>>

\* the cleanup task of server k: sleep(60 s).await returns
CleanupWake(k) ==
  /\ tasks.janitors[k].pc = "sleep"
  /\ tasks' = [tasks EXCEPT !.janitors[k].pc = "scan_lock"]
  /\ UNCHANGED <<slot, built, registry, locks, pushVars, serverVars>>

\* the cleanup task: sessions.lock() of the scan
CleanupScanLock(k) ==
  /\ tasks.janitors[k].pc = "scan_lock"
  /\ locks.sessions[k] = NoTask
  /\ locks' = [locks EXCEPT !.sessions[k] = JanitorTask(k)]
  /\ tasks' = [tasks EXCEPT !.janitors[k].pc = "scanning"]
  /\ UNCHANGED <<slot, built, registry, pushVars, serverVars>>

\* the cleanup task collects the ids to remove (which are old and unfetched
\* is not followed here) and drops the guard
CleanupScan(k) ==
  /\ tasks.janitors[k].pc = "scanning"
  /\ \E rm \in SUBSET registry[k] :
       tasks' = [tasks EXCEPT !.janitors[k].to_remove = rm,
                              !.janitors[k].pc = IF rm = {} THEN "sleep"
                                                 ELSE "remove_lock"]
  /\ locks' = [locks EXCEPT !.sessions[k] = NoTask]
  /\ UNCHANGED <<slot, built, registry, pushVars, serverVars>>

\* the cleanup task: sessions.lock() of the removal
CleanupRemoveLock(k) ==
  /\ tasks.janitors[k].pc = "remove_lock"
  /\ locks.sessions[k] = NoTask
  /\ locks' = [locks EXCEPT !.sessions[k] = JanitorTask(k)]
  /\ tasks' = [tasks EXCEPT !.janitors[k].pc = "removing"]
  /\ UNCHANGED <<slot, built, registry, pushVars, serverVars>>

\* the cleanup task removes what it collected and sleeps again
CleanupRemove(k) ==
  /\ tasks.janitors[k].pc = "removing"
  /\ registry' = [registry EXCEPT ![k] = @ \ tasks.janitors[k].to_remove]
  /\ locks' = [locks EXCEPT !.sessions[k] = NoTask]
  /\ tasks' = [tasks EXCEPT !.janitors[k].pc = "sleep",
                            !.janitors[k].to_remove = {}]
  /\ UNCHANGED <<slot, built, pushVars, serverVars>>

\* handle_tts_stream on the listener of server k: sessions.lock()
HandlerLookupLock(k, sid) ==
  /\ tasks.handler.pc \in {"idle", "done"}
  /\ locks.sessions[k] = NoTask
  /\ locks' = [locks EXCEPT !.sessions[k] = HandlerTask]
  /\ tasks' = [tasks EXCEPT !.handler = [pc |-> "lookup", server |-> k, sid |-> sid]]
  /\ UNCHANGED <<slot, built, registry, pushVars, serverVars>>

\* handle_tts_stream: the lookup block; 404 when the id is not in the map
HandlerLookup ==
  /\ tasks.handler.pc = "lookup"
  /\ locks' = [locks EXCEPT !.sessions[tasks.handler.server] = NoTask]
  /\ tasks' = [tasks EXCEPT !.handler.pc =
                 IF tasks.handler.sid \in registry[tasks.handler.server]
                 THEN "send" ELSE "done"]
  /\ UNCHANGED <<slot, built, registry, pushVars, serverVars>>

\* handle_tts_stream: send().await returns; a failure is answered 500, a
\* rejection is read (text().await) and answered 502, a success is streamed
HandlerSent(next) ==
  /\ tasks.handler.pc = "send"
  /\ tasks' = [tasks EXCEPT !.handler.pc = next]
  /\ UNCHANGED <<slot, built, registry, locks, pushVars, serverVars>>

\* handle_tts_stream: text().await of a rejection returns
HandlerText ==
  /\ tasks.handler.pc = "text"
  /\ tasks' = [tasks EXCEPT !.handler.pc = "done"]
  /\ UNCHANGED <<slot, built, registry, locks, pushVars, serverVars>>

\* the body stream: the cancel flag is seen, or up.next().await returns the
\* end or an error
HandlerBodyOver ==
  /\ tasks.handler.pc = "pull"
  /\ tasks' = [tasks EXCEPT !.handler.pc = "cleanup_lock"]
  /\ UNCHANGED <<slot, built, registry, locks, pushVars, serverVars>>

\* the body stream: sessions_map.lock() of its cleanup
HandlerCleanupLock ==
  /\ tasks.handler.pc = "cleanup_lock"
  /\ locks.sessions[tasks.handler.server] = NoTask
  /\ locks' = [locks EXCEPT !.sessions[tasks.handler.server] = HandlerTask]
  /\ tasks' = [tasks EXCEPT !.handler.pc = "cleaning"]
  /\ UNCHANGED <<slot, built, registry, pushVars, serverVars>>

\* the body stream removes its session and ends
HandlerCleanup ==
  /\ tasks.handler.pc = "cleaning"
  /\ registry' = [registry EXCEPT ![tasks.handler.server] = @ \ {tasks.handler.sid}]
  /\ locks' = [locks EXCEPT !.sessions[tasks.handler.server] = NoTask]
  /\ tasks' = [tasks EXCEPT !.handler.pc = "done"]
  /\ UNCHANGED <<slot, built, pushVars, serverVars>>

\* openai_stream_start / responses_stream_start: STREAM_STOPPERS.lock()
StartLock ==
  /\ tasks.relay.pc = "idle"
  /\ locks.stoppers = NoTask
  /\ locks' = [locks EXCEPT !.stoppers = RelayTask]
  /\ tasks' = [tasks EXCEPT !.relay.pc = "inserting"]
  /\ UNCHANGED <<slot, built, registry, pushVars, serverVars>>

\* the start call inserts the sender, drops the guard and spawns the relay
StartInsert ==
  /\ tasks.relay.pc = "inserting"
  /\ stoppers' = stoppers \cup {FirstRelay}
  /\ locks' = [locks EXCEPT !.stoppers = NoTask]
  /\ tasks' = [tasks EXCEPT !.relay.pc = "send"]
  /\ UNCHANGED <<slot, built, registry, streamCounter, rx, relay, events, stopRet,
                 serverVars>>

\* the relay: send().await returns; a failure goes to on_remove, a
\* rejection is read first (text().await), a success enters the loop
RelaySent(next) ==
  /\ tasks.relay.pc = "send"
  /\ tasks' = [tasks EXCEPT !.relay.pc = next]
  /\ UNCHANGED <<slot, built, registry, locks, pushVars, serverVars>>

\* the relay: text().await returns, or a branch of the loop ends the loop
RelayLeave ==
  /\ tasks.relay.pc \in {"text", "loop"}
  /\ tasks' = [tasks EXCEPT !.relay.pc = "remove_lock"]
  /\ UNCHANGED <<slot, built, registry, locks, pushVars, serverVars>>

\* on_remove: STREAM_STOPPERS.lock()
OnRemoveLock ==
  /\ tasks.relay.pc = "remove_lock"
  /\ locks.stoppers = NoTask
  /\ locks' = [locks EXCEPT !.stoppers = RelayTask]
  /\ tasks' = [tasks EXCEPT !.relay.pc = "removing"]
  /\ UNCHANGED <<slot, built, registry, pushVars, serverVars>>

\* on_remove: map.remove(&rid), the guard is dropped, the task returns
OnRemove ==
  /\ tasks.relay.pc = "removing"
  /\ stoppers' = stoppers \ {FirstRelay}
  /\ locks' = [locks EXCEPT !.stoppers = NoTask]
  /\ tasks' = [tasks EXCEPT !.relay.pc = "done"]
  /\ UNCHANGED <<slot, built, registry, streamCounter, rx, relay, events, stopRet,
                 serverVars>>

\* openai_stream_stop: STREAM_STOPPERS.lock()
PressLock ==
  /\ tasks.press.pc \in {"idle", "done"}
  /\ locks.stoppers = NoTask
  /\ locks' = [locks EXCEPT !.stoppers = PressTask]
  /\ tasks' = [tasks EXCEPT !.press.pc = "taking"]
  /\ UNCHANGED <<slot, built, registry, pushVars, serverVars>>

\* openai_stream_stop: map.remove(&id), the guard is dropped before the send
PressTake ==
  /\ tasks.press.pc = "taking"
  /\ stoppers' = stoppers \ {FirstRelay}
  /\ locks' = [locks EXCEPT !.stoppers = NoTask]
  /\ tasks' = [tasks EXCEPT !.press.pc = "done",
                            !.press.ret = (FirstRelay \in stoppers)]
  /\ UNCHANGED <<slot, built, registry, streamCounter, rx, relay, events, stopRet,
                 serverVars>>

----------------------------------------------------------------------------
(* Start calls one atomic operation at a time: the fetch_add on            *)
(* STREAM_COUNTER, then the insert and the spawn. tasks.starts lists the   *)
(* calls in the order of their fetch_add.                                  *)

MaxStarts == 2

\* a counter read and written back in two operations: a call that runs while
\* another is between its fetch and its insert gets the same value
StartFetchAdd_Torn(kind, mime) ==
  /\ Len(tasks.starts) < MaxStarts
  /\ LET pending == {n \in DOMAIN tasks.starts : tasks.starts[n].pc = "insert"}
         id == IF pending # {} THEN tasks.starts[Min(pending)].id
               ELSE streamCounter + 1
     IN /\ streamCounter' = id
        /\ tasks' = [tasks EXCEPT !.starts =
                       Append(@, [kind |-> kind, mime |-> mime, id |-> id,
                                  pc |-> "insert"])]
  /\ UNCHANGED <<slot, built, registry, locks, stoppers, rx, relay, events,
                 stopRet, serverVars>>

\* let id = STREAM_COUNTER.fetch_add(1, Ordering::SeqCst) + 1
StartFetchAdd(kind, mime) ==
  /\ Len(tasks.starts) < MaxStarts
  /\ streamCounter' = streamCounter + 1
  /\ tasks' = [tasks EXCEPT !.starts =
                 Append(@, [kind |-> kind, mime |-> mime, id |-> streamCounter + 1,
                            pc |-> "insert"])]
  /\ UNCHANGED <<slot, built, registry, locks, stoppers, rx, relay, events,
                 stopRet, serverVars>>

\* an insert that replaces the table, dropping the senders of other ids
StartInsertSpawn_Evicting(n) ==
  /\ n \in DOMAIN tasks.starts
  /\ tasks.starts[n].pc = "insert"
  /\ LET id == tasks.starts[n].id
     IN /\ stoppers' = {id}
        /\ rx' = (id :> "open") @@
                   [k \in DOMAIN rx |-> IF k \in stoppers THEN "closed" ELSE rx[k]]
        /\ relay' = (id :> NewRelay(tasks.starts[n].kind, tasks.starts[n].mime)) @@ relay
        /\ events' = (id :> <<>>) @@ events
  /\ tasks' = [tasks EXCEPT !.starts[n].pc = "returned"]
  /\ UNCHANGED <<slot, built, registry, locks, streamCounter, stopRet, serverVars>>

\* map.insert(id, tx) under the guard, the spawn of the relay, Ok(id)
StartInsertSpawn(n) ==
  /\ n \in DOMAIN tasks.starts
  /\ tasks.starts[n].pc = "insert"
  /\ LET id == tasks.starts[n].id
     IN /\ stoppers' = stoppers \cup {id}
        /\ rx' = (id :> "open") @@ rx
        /\ relay' = (id :> NewRelay(tasks.starts[n].kind, tasks.starts[n].mime)) @@ relay
        /\ events' = (id :> <<>>) @@ events
  /\ tasks' = [tasks EXCEPT !.starts[n].pc = "returned"]
  /\ UNCHANGED <<slot, built, registry, locks, streamCounter, stopRet, serverVars>>

\* the two start calls, by the kind and the mime they hand to the relay
StartCalls ==
  {[kind |-> "speech", mime |-> SpeechMime(UnwrapOr(f, "opus"))] : f \in {None}}
    \cup {[kind |-> "responses", mime |-> ResponsesMime(UnwrapOr(f, "opus"))] :
            f \in {Some("wav")}}

\* one-chunk bodies, enough to tell the events of two relays apart
ShortUpstreams == SeqsUpTo({<<255>>}, 1)

----------------------------------------------------------------------------
(* Specifications of the push relays: each follows the relay of the first  *)
(* start call of the process (relays share no state but the id counter and *)
(* the stopper table).                                                     *)

InitPush ==
  /\ streamCounter = 0
  /\ stoppers = {}
  /\ rx = <<>>
  /\ relay = <<>>
  /\ events = <<>>
  /\ stopRet = [id |-> 0, ret |-> FALSE]

InitServer ==
  /\ sessions = <<>>
  /\ cancel = <<>>
  /\ started = <<>>
  /\ everCreated = {}
  /\ now = 0
  /\ janitor = [pc |-> "sleep", wake |-> JanitorSleep, to_remove |-> {}]
  /\ gets = <<>>
  /\ lastOp = NoOp

Init == InitPush /\ InitServer /\ InitLocks

NextDirect ==
  \/ streamCounter = 0 /\ \E f \in FormatArgs : openai_stream_start(f)
  \/ \E id \in 1..streamCounter : openai_stream_stop(id)
  \/ \E id \in DOMAIN relay : RelaySendFailed(id)
  \/ \E id \in DOMAIN relay, st \in RejectStatuses, b \in RejectBodies :
       RelaySendRejected(id, st, b)
  \/ \E id \in DOMAIN relay, up \in SpeechUpstreams : RelaySendOk(id, up)
  \/ \E id \in DOMAIN relay : SelectCancelled(id)
  \/ \E id \in DOMAIN relay : SelectReadError(id)
  \/ \E id \in DOMAIN relay : SelectStreamEnd(id)
  \/ \E id \in DOMAIN relay : SpeechChunk(id)
  \/ \E id \in DOMAIN relay : RelayOnRemove(id)

SpecDirect == Init /\ [][NextDirect]_vars

NextSse ==
  \/ streamCounter = 0 /\ \E f \in FormatArgs : responses_stream_start(f)
  \/ \E id \in 1..streamCounter : openai_stream_stop(id)
  \/ \E id \in DOMAIN relay : RelaySendFailed(id)
  \/ \E id \in DOMAIN relay, st \in RejectStatuses, b \in RejectBodies :
       RelaySendRejected(id, st, b)
  \/ \E id \in DOMAIN relay, up \in SseStreams : RelaySendOk(id, up)
  \/ \E id \in DOMAIN relay : SelectCancelled(id)
  \/ \E id \in DOMAIN relay : SelectReadError(id)
  \/ \E id \in DOMAIN relay : SelectStreamEnd(id)
  \/ \E id \in DOMAIN relay : \E n \in 1..Len(relay[id].up) : ResponsesChunk(id, n)
  \/ \E id \in DOMAIN relay : RelayOnRemove(id)

SpecSse == Init /\ [][NextSse]_vars

\* either relay kind
NextPush ==
  \/ streamCounter = 0 /\ \E f \in FormatArgs : openai_stream_start(f)
  \/ streamCounter = 0 /\ \E f \in FormatArgs : responses_stream_start(f)
  \/ \E id \in 1..streamCounter : openai_stream_stop(id)
  \/ \E id \in DOMAIN relay : RelaySendFailed(id)
  \/ \E id \in DOMAIN relay, st \in RejectStatuses, b \in RejectBodies :
       RelaySendRejected(id, st, b)
  \/ \E id \in DOMAIN relay, up \in SpeechUpstreams :
       relay[id].kind = "speech" /\ RelaySendOk(id, up)
  \/ \E id \in DOMAIN relay, up \in SseStreams :
       relay[id].kind = "responses" /\ RelaySendOk(id, up)
  \/ \E id \in DOMAIN relay : SelectCancelled(id)
  \/ \E id \in DOMAIN relay : SelectReadError(id)
  \/ \E id \in DOMAIN relay : SelectStreamEnd(id)
  \/ \E id \in DOMAIN relay : SpeechChunk(id)
  \/ \E id \in DOMAIN relay : \E n \in 1..Len(relay[id].up) : ResponsesChunk(id, n)
  \/ \E id \in DOMAIN relay : RelayOnRemove(id)

SpecPush == Init /\ [][NextPush]_vars

\* the steps of a relay task that wait for no upstream: the cancellation
\* branch of the select, and the exit of the task
RelayCancelBranch == \E id \in DOMAIN relay : SelectCancelled(id)
RelayExit == \E id \in DOMAIN relay : RelayOnRemove(id)

\* select! polls its ready branches in random order, so a branch that stays
\* ready is taken in the end; the runtime runs a task that can exit
FairPush == SpecPush /\ WF_vars(RelayCancelBranch) /\ WF_vars(RelayExit)

\* several start calls, each relay with a short life
NextStarts ==
  \/ \E c \in StartCalls : StartFetchAdd(c.kind, c.mime)
  \/ \E n \in DOMAIN tasks.starts : StartInsertSpawn(n)
  \/ \E id \in 1..streamCounter : openai_stream_stop(id)
  \/ \E id \in DOMAIN relay : RelaySendFailed(id)
  \/ \E id \in DOMAIN relay, up \in ShortUpstreams :
       relay[id].kind = "speech" /\ RelaySendOk(id, up)
  \/ \E id \in DOMAIN relay : SelectCancelled(id)
  \/ \E id \in DOMAIN relay : SelectStreamEnd(id)
  \/ \E id \in DOMAIN relay : SpeechChunk(id)
  \/ \E id \in DOMAIN relay : RelayOnRemove(id)

SpecStarts == Init /\ [][NextStarts]_vars

\* the ids handed out so far, in the order of the counter increments
HandedOut == [n \in DOMAIN tasks.starts |-> tasks.starts[n].id]

\* C21: the ids returned by openai_stream_start and responses_stream_start
\* are strictly increasing in the order of the counter increments, hence
\* pairwise distinct across both kinds, also while other start calls are
\* between their increment and their insert; and the insert of a start call
\* finds no sender and no relay under its id.
C21_FreshIds ==
  /\ \A i, j \in DOMAIN HandedOut : i < j => HandedOut[i] < HandedOut[j]
  /\ \A n \in DOMAIN tasks.starts :
       tasks.starts[n].pc = "insert" =>
         /\ tasks.starts[n].id \notin stoppers
         /\ tasks.starts[n].id \notin DOMAIN relay

\* two start calls of different kinds are both between increment and insert
C21_Witness ==
  /\ Len(tasks.starts) = 2
  /\ tasks.starts[1].pc = "insert" /\ tasks.starts[2].pc = "insert"
  /\ tasks.starts[1].kind # tasks.starts[2].kind

----------------------------------------------------------------------------
(* Properties of the push relays.                                          *)

TerminalPositions(evs) == {i \in 1..Len(evs) : evs[i].name \in TerminalNames}

\* at most one terminal event, and nothing after it
OneTerminalLast(evs) ==
  /\ Cardinality(TerminalPositions(evs)) <= 1
  /\ \A i \in TerminalPositions(evs) : i = Len(evs)

\* C1: a ResponsesSseRelay emits for its id exactly one terminal event (end,
\* error or cancelled) and no event after it; after the end event of a
\* `[DONE]` payload or a `response.completed` event it emits nothing more.
C1_SseOneTerminal ==
  \A id \in DOMAIN relay :
    relay[id].kind = "responses" =>
      /\ OneTerminalLast(events[id])
      /\ relay[id].pc = "done" => Cardinality(TerminalPositions(events[id])) = 1

\* base64 decoding, to read a chunk event's data back as bytes
B64Index(c) == CHOOSE n \in 0..63 : B64Alphabet[n + 1] = c

RECURSIVE Base64Decode(_)
Base64Decode(text) ==
  IF Len(text) < 4 THEN <<>>
  ELSE LET a == B64Index(text[1])
           b == B64Index(text[2])
       IN IF text[3] = "=" THEN <<a * 4 + b \div 16>>
          ELSE LET c == B64Index(text[3])
               IN IF text[4] = "="
                  THEN <<a * 4 + b \div 16, (b % 16) * 16 + c \div 4>>
                  ELSE <<a * 4 + b \div 16, (b % 16) * 16 + c \div 4,
                         (c % 4) * 64 + B64Index(text[4])>>
                       \o Base64Decode(Drop(text, 4))

\* the number of upstream chunks a speech relay has read
ChunksRead(id) == Len(relay[id].resp) - Len(relay[id].up)

\* C2: a DirectChunkRelay that received a success response emits start
\* first, then exactly one chunk event per upstream chunk read, in upstream
\* order and carrying that chunk, then exactly one terminal event (end when
\* the upstream is exhausted, error on a read error, cancelled on
\* cancellation), and nothing after the terminal event.
C2_DirectOrder ==
  \A id \in DOMAIN relay :
    (relay[id].kind = "speech" /\ relay[id].http = "ok") =>
      LET evs == events[id]
          k == ChunksRead(id)
      IN /\ Len(evs) >= 1 + k
         /\ evs[1] = EvStart(id, relay[id].mime)
         /\ \A i \in 1..k :
              /\ evs[i + 1].name = "chunk" /\ evs[i + 1].id = id
              /\ Base64Decode(evs[i + 1].data) = relay[id].resp[i]
         /\ relay[id].pc = "loop" => Len(evs) = 1 + k
         /\ relay[id].pc \in {"exit", "done"} =>
              /\ Len(evs) = k + 2
              /\ evs[k + 2].id = id
              /\ \/ evs[k + 2].name = "end" /\ relay[id].up = <<>>
                 \/ evs[k + 2] = EvError(id, MsgStreamError)
                 \/ evs[k + 2].name = "cancelled" /\ rx[id] # "open"

\* the relay ended after relaying two different chunks to the end
C2_Witness ==
  \E id \in DOMAIN relay :
    /\ relay[id].kind = "speech" /\ relay[id].pc = "done"
    /\ relay[id].resp = <<<<65, 66, 67>>, <<255>>>>
    /\ events[id] = <<EvStart(id, "audio/mpeg"),
                      EvChunk(id, <<"Q", "U", "J", "D">>),
                      EvChunk(id, <<"/", "w", "=", "=">>),
                      EvEnd(id)>>

Last(seq) == seq[Len(seq)]

HasTerminal(evs) == TerminalPositions(evs) # {}

\* C11 as stated: when openai_stream_stop returned true for a relay that is
\* in its loop and has emitted no terminal event, the terminal event the
\* relay emits is cancelled.
C11_StoppedEndsCancelled ==
  [][\A id \in DOMAIN relay :
       (/\ rx[id] = "sent" /\ relay[id].pc = "loop"
        /\ ~HasTerminal(events[id]) /\ HasTerminal(events'[id])) =>
         Last(events'[id]).name = "cancelled"]_vars

\* C11: when openai_stream_stop returned true for a relay that is in its
\* loop, the relay task under fair scheduling terminates and its id leaves
\* the table; once the relay has emitted cancelled it has left the loop, it
\* emits nothing more and reads and parses no more bytes. (The terminal
\* event is cancelled only if the cancellation branch of the select wins.)
C11_StoppedTerminates ==
  /\ (IF FirstRelay \in DOMAIN relay
      THEN relay[FirstRelay].pc = "loop" /\ rx[FirstRelay] = "sent"
      ELSE FALSE)
       ~> (IF FirstRelay \in DOMAIN relay
           THEN relay[FirstRelay].pc = "done" /\ FirstRelay \notin stoppers
           ELSE FALSE)
  /\ [][\A id \in DOMAIN relay :
          (events[id] # <<>> /\ Last(events[id]).name = "cancelled") =>
            /\ relay[id].pc \in {"exit", "done"}
            /\ events'[id] = events[id]
            /\ relay'[id].up = relay[id].up
            /\ relay'[id].buf = relay[id].buf]_vars

\* an SSE relay was stopped after its start, has ended with cancelled and
\* has terminated with unparsed bytes in its buffer and unread bytes upstream
C11_Witness ==
  /\ FirstRelay \in DOMAIN relay
  /\ relay[FirstRelay].kind = "responses" /\ relay[FirstRelay].pc = "done"
  /\ stopRet = [id |-> FirstRelay, ret |-> TRUE]
  /\ Len(events[FirstRelay]) >= 2
  /\ Last(events[FirstRelay]).name = "cancelled"
  /\ relay[FirstRelay].buf # <<>> /\ relay[FirstRelay].up # <<>>

\* C13: the sender of a push relay is in the handle table under its id when
\* the relay task is spawned, before any event for the id; on every exit
\* path of the task (request failure, non-success status, end, read error,
\* cancellation) the id is absent from the table once the task has
\* terminated; the table holds only ids of relays that were started.
C13_HandleTable ==
  /\ [](\A id \in DOMAIN relay :
          /\ (relay[id].pc = "send" /\ rx[id] = "open") => id \in stoppers
          /\ relay[id].pc = "done" => id \notin stoppers /\ HasTerminal(events[id]))
  /\ [](stoppers \subseteq DOMAIN relay)
  /\ [][\A id \in DOMAIN relay' \ DOMAIN relay :
          /\ id \in stoppers' /\ id \notin stoppers
          /\ events'[id] = <<>> /\ relay'[id].pc = "send"]_vars

\* a relay that was never stopped has terminated after a non-success
\* status, and its task has taken its sender out of the table
C13_Witness ==
  \E id \in DOMAIN relay :
    /\ relay[id].pc = "done" /\ relay[id].http = "rejected"
    /\ rx[id] = "closed" /\ id \notin stoppers

\* C14: a push relay whose upstream answered with a non-success status has
\* emitted exactly one event for its id, the error event carrying that
\* status and the text of the response body; no start, chunk, end or
\* cancelled event.
C14_RejectedOneError ==
  \A id \in DOMAIN relay :
    relay[id].http = "rejected" =>
      /\ relay[id].status \notin 200..299
      /\ Len(events[id]) = 1
      /\ events[id][1].name = "error" /\ events[id][1].id = id
      /\ events[id][1].msg.kind = "OpenAI error"
      /\ events[id][1].msg.status = relay[id].status
      /\ events[id][1].msg.body = relay[id].body_text

\* a direct relay that was answered 403 "bad key", was stopped meanwhile
\* and has terminated
C14_Witness ==
  \E id \in DOMAIN relay :
    /\ relay[id].kind = "speech" /\ relay[id].pc = "done"
    /\ relay[id].http = "rejected" /\ rx[id] = "sent"
    /\ events[id] = <<EvError(id, MsgStatus(403, "bad key"))>>

\* the strings selected from the audio delta events of a byte stream, in
\* stream order, empty ones left out
RECURSIVE DeltaStrings(_)
DeltaStrings(bytes) ==
  LET pos == find_sse_event_boundary(bytes)
  IN IF ~pos.some THEN <<>>
     ELSE LET data == extract_sse_data(Take(bytes, pos.val))
              val == ParseJson(data.val)
              rest == consume_leading_newlines(Drop(bytes, pos.val)).buf
          IN (IF data.some /\ val.ok /\ val.type = TypeDelta
                           /\ DeltaString(val) # <<>>
              THEN <<DeltaString(val)>> ELSE <<>>) \o DeltaStrings(rest)

IsChunk(ev) == ev.name = "chunk"

\* the data of the chunk events of a sequence of events
ChunkData(evs) ==
  LET chunks == SelectSeq(evs, IsChunk)
  IN [i \in 1..Len(chunks) |-> chunks[i].data]

\* the bytes an SSE relay has taken out of its buffer
Parsed(id) ==
  Take(relay[id].resp, Len(relay[id].resp) - Len(relay[id].up) - Len(relay[id].buf))

\* the chunk events of an SSE relay carry, unchanged and in stream order,
\* the non-empty selected strings of the delta events it has parsed
ChunksAreDeltas ==
  \A id \in DOMAIN relay :
    (relay[id].kind = "responses" /\ relay[id].http = "ok") =>
      ChunkData(events[id]) = DeltaStrings(Parsed(id))

\* C15: in an SSE relay each complete event whose payload is JSON of type
\* response.output_audio.delta gives one chunk event iff the selected string
\* (delta, else audio) is non-empty, carrying that string unchanged, in the
\* order of the events in the byte stream, after start and before end.
C15_DeltaChunks ==
  /\ ChunksAreDeltas
  /\ \A id \in DOMAIN relay :
       (relay[id].kind = "responses" /\ relay[id].http = "ok") =>
         /\ events[id][1].name = "start"
         /\ \A i \in 1..Len(events[id]) : \A j \in 1..Len(events[id]) :
              (i < j /\ events[id][i].name = "end") => events[id][j].name # "chunk"

----------------------------------------------------------------------------
(* Specification of the session server: the registry with its API, the     *)
(* idle cleanup task, the clock, and the GET requests of Conns.            *)

NextServer ==
  \/ Cardinality(everCreated) < MaxSessions
       /\ \E f \in SessionFormats : create_session(f)
  \/ \E id \in SessionIds : stop_session(id)
  \/ \E ttl \in CleanupTtls : cleanup_idle(ttl)
  \/ Tick
  \/ JanitorScan
  \/ JanitorRemove
  \/ \E h \in Conns, sid \in SessionIds : GetLookup(h, sid)
  \/ \E h \in DOMAIN gets : GetMarkStarted(h)
  \/ \E h \in DOMAIN gets : GetUpstreamFailed(h)
  \/ \E h \in DOMAIN gets : GetUpstreamRejected(h)
  \/ \E h \in DOMAIN gets, resp \in GetUpstreams : GetUpstreamOk(h, resp)
  \/ \E h \in DOMAIN gets : BodyPoll(h)
  \/ \E h \in DOMAIN gets : BodyNextChunk(h)
  \/ \E h \in DOMAIN gets : BodyNextError(h)
  \/ \E h \in DOMAIN gets : BodyNextNone(h)
  \/ \E h \in DOMAIN gets : ClientDisconnect(h)

SpecServer == Init /\ [][NextServer]_vars

\* the runtime runs the idle cleanup task once its sleep is over, and the
\* task gets the lock for its removal
FairServer == SpecServer /\ WF_vars(JanitorScan) /\ WF_vars(JanitorRemove)

----------------------------------------------------------------------------
(* Properties of the session server.                                       *)

\* C3: the idle cleanup task never removes a session whose started flag is
\* true at the moment of the removal, however its scan and its removal (two
\* lock acquisitions) interleave with GET handlers that set the flag.
C3_JanitorSparesStarted ==
  [][(janitor.pc = "remove" /\ janitor'.pc = "sleep") =>
       \A k \in DOMAIN sessions \ DOMAIN sessions' : ~started[k]]_vars

C5_StopSession ==
  /\ [][lastOp'.op = "stop_session" =>
          LET id == lastOp'.id
          IN /\ lastOp'.ret = (id \in DOMAIN sessions)
             /\ id \notin DOMAIN sessions =>
                  UNCHANGED <<sessions, cancel, started, gets>>
             /\ id \in DOMAIN sessions =>
                  /\ cancel' = [cancel EXCEPT ![id] = TRUE]
                  /\ DOMAIN sessions' = DOMAIN sessions \ {id}
                  /\ \A k \in DOMAIN sessions' : sessions'[k] = sessions[k]
                  /\ UNCHANGED <<started, gets>>]_vars
  /\ [](\A h \in DOMAIN gets :
          gets[h].after_stop => gets[h].pc = "done" /\ gets[h].status = 404)

\* stop_session has returned true for an id, and a GET that began afterwards
\* has been answered
C5_Witness ==
  \E h \in DOMAIN gets :
    /\ gets[h].after_stop /\ gets[h].status = 404
    /\ cancel[gets[h].sid] /\ gets[h].sid \notin DOMAIN sessions

\* C6: a session id that has left the registry is never inserted again, and
\* a GET for it that begins after the removal is answered 404.
C6_NoReuse ==
  /\ [][\A id \in everCreated \ DOMAIN sessions : id \notin DOMAIN sessions']_vars
  /\ [](\A h \in DOMAIN gets :
          gets[h].after_removal => gets[h].pc = "done" /\ gets[h].status = 404)

\* a session was created after another one had been removed, and a GET for
\* the removed one has been answered
C6_Witness ==
  /\ \E id \in DOMAIN sessions : \E old \in everCreated \ DOMAIN sessions : old < id
  /\ \E h \in DOMAIN gets : gets[h].after_removal /\ gets[h].status = 404

\* C7: when the body of a 200 response has ended by cancellation, by the end
\* of the upstream or by an upstream read error, its session is not in the
\* registry, the body has called the removal once and no more, and the body
\* yields nothing further.
C7_BodyCleanup ==
  /\ [](\A h \in DOMAIN gets :
          /\ gets[h].removes <= 1
          /\ gets[h].term \in {"cancelled", "end", "error"} =>
               /\ gets[h].status = 200 /\ gets[h].pc = "closed"
               /\ gets[h].sid \notin DOMAIN sessions
               /\ gets[h].removes = 1)
  /\ [][\A h \in DOMAIN gets : gets[h].pc = "closed" => gets'[h] = gets[h]]_vars

\* a body has ended at the end of a two-chunk upstream after removing its
\* session
C7_Witness ==
  \E h \in DOMAIN gets :
    /\ gets[h].term = "end" /\ Len(gets[h].body) = 2
    /\ gets[h].removes = 1 /\ gets[h].sid \notin DOMAIN sessions

C9_BodyIsUpstream ==
  \A h \in DOMAIN gets :
    gets[h].status = 200 =>
      /\ IsPrefix(gets[h].body, gets[h].resp)
      /\ gets[h].body \o gets[h].up = gets[h].resp
      /\ gets[h].term = "end" => gets[h].body = gets[h].resp
      /\ gets[h].term = "cancelled" => cancel[gets[h].sid]
      /\ gets[h].sid \in DOMAIN sessions =>
           gets[h].format = sessions[gets[h].sid].format
      /\ gets[h].format = "mp3" => gets[h].content_type = "audio/mpeg"
      /\ gets[h].format = "opus" => gets[h].content_type = "audio/ogg"

\* the body of an mp3 session that was never cancelled has delivered "ABC"
\* and a second chunk to the end
C9_Witness ==
  \E h \in DOMAIN gets :
    /\ gets[h].status = 200 /\ gets[h].term = "end"
    /\ ~cancel[gets[h].sid]
    /\ gets[h].content_type = "audio/mpeg"
    /\ gets[h].body = <<<<65, 66, 67>>, <<68>>>>

\* C10: the body tests the cancel flag before every upstream read: with the
\* flag set it starts no read but ends, so at most one chunk (the one of the
\* read in flight when the flag was set) is delivered after the flag is set.
C10_CancelBeforePull ==
  /\ [](\A h \in DOMAIN gets : gets[h].late <= 1)
  /\ [][\A h \in DOMAIN gets :
          (gets[h].pc = "poll" /\ cancel[gets[h].sid] /\ gets'[h] # gets[h]) =>
            gets'[h].pc = "closed"]_vars

\* a body has delivered the chunk of the read in flight after its session
\* was stopped, and has then ended by cancellation with chunks left upstream
C10_Witness ==
  \E h \in DOMAIN gets :
    /\ gets[h].late = 1 /\ gets[h].term = "cancelled"
    /\ gets[h].up # <<>>

\* session id is unfetched, older than the ttl, and the sleep of the cleanup
\* task is over
DueForCleanup(id) ==
  IF id \in DOMAIN sessions
  THEN /\ ~started[id] /\ now - sessions[id].created_at > JanitorTtl
       /\ janitor.pc = "sleep" /\ now >= janitor.wake
  ELSE FALSE

GoneOrFetched(id) == IF id \in DOMAIN sessions THEN started[id] ELSE TRUE

\* C18: a session that is older than the ttl when the sleep of the cleanup
\* task ends, and that no GET fetches and nobody stops, is eventually
\* removed from the registry by the task (under fair scheduling of the task).
C18_IdleReaped ==
  \A id \in SessionIds : DueForCleanup(id) ~> GoneOrFetched(id)

\* the cleanup task has removed an unfetched, unstopped session: the id is
\* gone, its flags are clear, no GET was made, and the task sleeps again
C18_Witness ==
  \E id \in everCreated :
    /\ id \notin DOMAIN sessions /\ ~started[id] /\ ~cancel[id]
    /\ gets = <<>>
    /\ janitor.pc = "sleep" /\ janitor.wake = now + JanitorSleep
    /\ now - JanitorTtl > 0

----------------------------------------------------------------------------
(* Cancellation of both delivery modes. The push relays and the session    *)
(* server share no state, so each is followed with the other at rest.      *)

ServerAtRest ==
  /\ everCreated = {} /\ gets = <<>> /\ now = 0
  /\ janitor.pc = "sleep" /\ lastOp = NoOp

NextCancel ==
  \/ ServerAtRest /\ NextDirect
  \/ streamCounter = 0 /\ NextServer

SpecCancel == Init /\ [][NextCancel]_vars

\* a session whose response body has ended by itself, or that was stopped
SessionOver(id) ==
  /\ id \in everCreated
  /\ \/ cancel[id]
     \/ \E h \in DOMAIN gets :
          gets[h].sid = id /\ gets[h].term \in {"end", "error", "cancelled"}

\* stop_session on a session that is over is a no-op returning false
StopSessionNoOp ==
  (lastOp'.op = "stop_session" /\ SessionOver(lastOp'.id)) =>
    /\ lastOp'.ret = FALSE
    /\ UNCHANGED <<sessions, cancel, started, everCreated, gets>>

----------------------------------------------------------------------------
(* The SSE helpers as functions: one call on any of the small inputs (the  *)
(* functions keep no state between calls); lastOp holds the call and what  *)
(* it returned.                                                            *)

MaxBufLen == 6
MaxEventLines == 2

\* the bytes that matter to the scan, and one that does not
ScanBytes == {LF, CR, "a"}
Buffers == SeqsUpTo(ScanBytes, MaxBufLen)

\* lines of an event block: data lines without and with blanks around the
\* content, an indented data line, a comment, an empty data line, a line
\* that stops inside the prefix
EventLines ==
  { <<"d", "a", "t", "a", ":", "x">>,
    <<"d", "a", "t", "a", ":", SP, "y", SP>>,
    <<SP, "d", "a", "t", "a", ":", "z">>,
    <<":", "k">>,
    <<"d", "a", "t", "a", ":">>,
    <<"d", "a">> }
LineEnds == {<<LF>>, <<CR, LF>>}

RECURSIVE Blocks(_)
Blocks(n) ==
  IF n = 0 THEN {<<>>}
  ELSE LET shorter == Blocks(n - 1)
       IN shorter \cup {b \o l \o e : b \in shorter, l \in EventLines, e \in LineEnds}

EventBlocks == Blocks(MaxEventLines)

FindBoundaryCall(buf) ==
  /\ lastOp = NoOp
  /\ lastOp' = [op |-> "find_sse_event_boundary", arg |-> buf,
                ret |-> find_sse_event_boundary(buf)]
  /\ UNCHANGED <<sessions, cancel, started, everCreated, now, janitor, gets, pushVars, lockVars>>

ExtractDataCall(ev_bytes) ==
  /\ lastOp = NoOp
  /\ lastOp' = [op |-> "extract_sse_data", arg |-> ev_bytes,
                ret |-> extract_sse_data(ev_bytes)]
  /\ UNCHANGED <<sessions, cancel, started, everCreated, now, janitor, gets, pushVars, lockVars>>

NextUtils ==
  \/ \E buf \in Buffers : FindBoundaryCall(buf)
  \/ \E ev_bytes \in EventBlocks : ExtractDataCall(ev_bytes)

SpecUtils == Init /\ [][NextUtils]_vars

\* the offsets just past an occurrence of "\n\n" or "\r\n\r\n" in buf
SeparatorEnds(buf) ==
  {k \in 2..Len(buf) :
     \/ buf[k - 1] = LF /\ buf[k] = LF
     \/ /\ k >= 4
        /\ buf[k - 3] = CR /\ buf[k - 2] = LF /\ buf[k - 1] = CR /\ buf[k] = LF}

\* C16: find_sse_event_boundary returns Some(k) with k the smallest offset
\* just past an occurrence of "\n\n" or "\r\n\r\n", and None exactly when
\* the buffer contains neither sequence.
C16_FirstBoundary ==
  lastOp.op = "find_sse_event_boundary" =>
    LET ends == SeparatorEnds(lastOp.arg)
    IN /\ lastOp.ret.some <=> ends # {}
       /\ lastOp.ret.some => lastOp.ret.val = Min(ends)

\* a buffer in which "\r\n\r\n" ends one byte before a "\n\n" ends
C16_Witness ==
  /\ lastOp.op = "find_sse_event_boundary"
  /\ lastOp.arg = <<"a", CR, LF, CR, LF, LF>>
  /\ lastOp.ret = Some(5)

\* the positions of the lines that start with "data:"
DataLinesStrict(lines) == {i \in 1..Len(lines) : IsPrefix(DataPrefix, lines[i])}

\* the positions of the lines that start with "data:" after blanks
DataLinesLenient(lines) ==
  {i \in 1..Len(lines) : IsPrefix(DataPrefix, TrimStart(lines[i]))}

Max(S) == CHOOSE x \in S : \A y \in S : x >= y

\* C17 as stated: extract_sse_data returns the content after the prefix of
\* the last line that starts with "data:", trimmed, and None exactly when
\* no line starts with "data:".
C17_LastDataLineTrimmed ==
  lastOp.op = "extract_sse_data" =>
    LET lines == Lines(lastOp.arg)
        found == DataLinesStrict(lines)
    IN /\ lastOp.ret.some <=> found # {}
       /\ (lastOp.ret.some /\ found # {}) =>
            lastOp.ret.val = Trim(Drop(lines[Max(found)], Len(DataPrefix)))

\* C17: extract_sse_data returns the content after the prefix of the last
\* line that, after its leading whitespace, starts with "data:" (earlier
\* data lines are discarded), with the leading whitespace of the content
\* removed and the trailing kept; None exactly when there is no such line.
C17_LastDataLine ==
  lastOp.op = "extract_sse_data" =>
    LET lines == Lines(lastOp.arg)
        found == DataLinesLenient(lines)
    IN /\ lastOp.ret.some <=> found # {}
       /\ lastOp.ret.some =>
            lastOp.ret.val =
              TrimStart(Drop(TrimStart(lines[Max(found)]), Len(DataPrefix)))

\* an event with two data lines: the content of the second is returned,
\* with its trailing blank
C17_Witness ==
  /\ lastOp.op = "extract_sse_data"
  /\ lastOp.arg = <<"d", "a", "t", "a", ":", "x", LF,
                    "d", "a", "t", "a", ":", SP, "y", SP, CR, LF>>
  /\ lastOp.ret = Some(<<"y", SP>>)

----------------------------------------------------------------------------
(* The mutexes: the calls through the server singleton with the tasks of   *)
(* the servers they build, and the users of the stopper table, each side   *)
(* followed with the other at rest (no task takes a guard of both sides).  *)

StoppersAtRest == tasks.relay.pc = "idle" /\ tasks.press.pc = "idle"

SingletonAtRest ==
  /\ built = 0
  /\ \A c \in Callers : tasks.callers[c].pc = "idle"
  /\ tasks.stopper.pc = "idle"

NextSingleton ==
  \/ \E c \in Callers : CallerInvoke(c)
  \/ \E c \in Callers : EnsureCheckLock(c)
  \/ \E c \in Callers : EnsureCheck(c)
  \/ \E c \in Callers : ServerNew(c)
  \/ \E c \in Callers : EnsureStoreLock(c)
  \/ \E c \in Callers : EnsureStore(c)
  \/ \E c \in Callers : CreateLock(c)
  \/ \E c \in Callers : CreateSessionsLock(c)
  \/ \E c \in Callers : CreateInsert(c)
  \/ \E sid \in Callers : StopInvoke(sid)
  \/ StopSlotLock
  \/ StopNoServer
  \/ StopSessionsLock
  \/ StopRemove
  \/ \E k \in 1..built : CleanupWake(k)
  \/ \E k \in 1..built : CleanupScanLock(k)
  \/ \E k \in 1..built : CleanupScan(k)
  \/ \E k \in 1..built : CleanupRemoveLock(k)
  \/ \E k \in 1..built : CleanupRemove(k)
  \/ \E k \in 1..built, sid \in Callers : HandlerLookupLock(k, sid)
  \/ HandlerLookup
  \/ \E next \in {"pull", "text", "done"} : HandlerSent(next)
  \/ HandlerText
  \/ HandlerBodyOver
  \/ HandlerCleanupLock
  \/ HandlerCleanup

NextStoppers ==
  \/ StartLock
  \/ StartInsert
  \/ \E next \in {"loop", "text", "remove_lock"} : RelaySent(next)
  \/ RelayLeave
  \/ OnRemoveLock
  \/ OnRemove
  \/ PressLock
  \/ PressTake

NextLocks ==
  \/ StoppersAtRest /\ NextSingleton
  \/ SingletonAtRest /\ NextStoppers

SpecLocks == Init /\ [][NextLocks]_vars

\* the tasks suspended at an await: server initialisation, the sleep of a
\* cleanup task, an upstream send, an upstream read
Suspended ==
  {CallerTask(c) : c \in {d \in Callers : tasks.callers[d].pc = "new"}}
    \cup {JanitorTask(k) : k \in {j \in 1..built : tasks.janitors[j].pc = "sleep"}}
    \cup (IF tasks.handler.pc \in {"send", "text", "pull"} THEN {HandlerTask} ELSE {})
    \cup (IF tasks.relay.pc \in {"send", "text", "loop"} THEN {RelayTask} ELSE {})

Holds(t) ==
  \/ locks.singleton = t
  \/ locks.stoppers = t
  \/ \E k \in 1..built : locks.sessions[k] = t

\* the holder of the guard task t is blocked on, NoTask when t is not blocked
BlockedOn(t) ==
  IF t.kind = "caller"
  THEN IF tasks.callers[t.n].pc \in {"check_lock", "store_lock", "create_lock"}
       THEN locks.singleton
       ELSE IF tasks.callers[t.n].pc = "sessions_lock" THEN locks.sessions[slot]
       ELSE NoTask
  ELSE IF t.kind = "stopper"
  THEN IF tasks.stopper.pc = "slot_lock" THEN locks.singleton
       ELSE IF tasks.stopper.pc = "holding" /\ slot # 0 THEN locks.sessions[slot]
       ELSE NoTask
  ELSE IF t.kind = "janitor"
  THEN IF tasks.janitors[t.n].pc \in {"scan_lock", "remove_lock"}
       THEN locks.sessions[t.n] ELSE NoTask
  ELSE IF t.kind = "handler"
  THEN IF tasks.handler.pc = "cleanup_lock"
       THEN locks.sessions[tasks.handler.server] ELSE NoTask
  ELSE IF t.kind = "relay"
  THEN IF tasks.relay.pc = "remove_lock" THEN locks.stoppers ELSE NoTask
  ELSE NoTask

AllTasks ==
  {CallerTask(c) : c \in Callers} \cup {JanitorTask(k) : k \in 1..built}
    \cup {StopperTask, HandlerTask, RelayTask, PressTask}

\* task t can take a step, or waits for a guard whose holder can
CanRun(t) ==
  \/ BlockedOn(t) = NoTask /\ t \notin Suspended
  \/ /\ BlockedOn(t) # NoTask
     /\ BlockedOn(BlockedOn(t)) = NoTask
     /\ BlockedOn(t) \notin Suspended

\* C19: a task suspended at an await (server initialisation, the sleep of
\* the cleanup task, the upstream send, an upstream read) holds none of the
\* sessions, stopper-table and singleton guards; and every guard that is held
\* is held by a task that can run, or that waits for a guard whose holder
\* can run, so that no task is blocked on a guard forever.
C19_NoGuardAcrossAwait ==
  /\ \A t \in Suspended : ~Holds(t)
  /\ \A t \in AllTasks : Holds(t) => CanRun(t)

\* a caller is suspended in the initialisation of a server while another
\* task holds the guard of the slot, and the two guards have been nested
C19_Witness ==
  /\ \E c \in Callers : tasks.callers[c].pc = "new"
  /\ locks.singleton # NoTask
  /\ \E t \in AllTasks : BlockedOn(t) # NoTask /\ BlockedOn(BlockedOn(t)) # NoTask

\* every session that create_stream_session has returned and that was not
\* removed since is in the map of the server in the slot
InSlotRegistry ==
  \A k \in 1..built : registry[k] # {} => k = slot

\* C20: the streaming server is created at most once, and every session
\* lives in the sessions map of the server that stop_stream_session,
\* stream_session_count and stream_cleanup_idle consult.
C20_OneServer ==
  built <= 1 /\ InSlotRegistry

----------------------------------------------------------------------------
(* The transcoder as a function: one call of write_pcm16_wav_from_any per  *)
(* behaviour, on a WAV or on another container.                            *)

MaxSamples == 2
MaxPackets == 2

\* stored sample values by format: silence, small and full-scale values
\* (floats in 2^-FloatBits; 8-bit samples unsigned)
StoredSamples(fmt, bits) ==
  IF fmt = "Float" THEN {-6, 0, 1}
  ELSE CASE bits = 8 -> {0, 128, 200}
         [] bits = 16 -> {-32768, 0, 100}
         [] bits = 24 -> {-8388608, 0, 8388607}
         [] bits = 32 -> {-2147418112, 0, 65536}

WavFormats ==
  {[sample_format |-> "Float", bits_per_sample |-> 32]}
    \cup {[sample_format |-> "Int", bits_per_sample |-> b] : b \in {8, 16, 24, 32}}

InputRates == {4000, 6012, 44100, 200000}
ChannelCounts == {1, 2}
\* rate_adjust: out of range on both sides, the ends, no change, and steps
\* down and up
RateArgs == {-11, -10, -3, 0, 8, 10, 11}
Volumes == {0, 53, 100, 255}

\* the buffers a decoder hands out: by sample format (S24 stands for the
\* formats the match has no arm for), each with the rate and the channel
\* count of its spec, loud, silent or empty
BufferSpecs ==
  {[fmt |-> "F32", rate |-> 48000, channels |-> 2, silence |-> 0, loud |-> 4],
   [fmt |-> "S16", rate |-> 22050, channels |-> 1, silence |-> 0, loud |-> -32768],
   [fmt |-> "S32", rate |-> 6012, channels |-> 2, silence |-> 0, loud |-> 65536],
   [fmt |-> "U8", rate |-> 4000, channels |-> 1, silence |-> 128, loud |-> 255],
   [fmt |-> "S24", rate |-> 96000, channels |-> 6, silence |-> 0, loud |-> 5]}

Packet(track, decode, b, samples) ==
  [track |-> track, decode |-> decode, fmt |-> b.fmt, rate |-> b.rate,
   channels |-> b.channels, samples |-> samples]

Packets ==
  {Packet(TRUE, "ok", b, <<b.loud>>) : b \in BufferSpecs}
    \cup {Packet(TRUE, "ok", b, <<b.silence>>) :
            b \in {x \in BufferSpecs : x.fmt \in DecodedFormats}}
    \cup {Packet(TRUE, "ok", b, <<>>) : b \in {x \in BufferSpecs : x.fmt = "S32"}}
    \cup {Packet(TRUE, "err", b, <<>>) : b \in {x \in BufferSpecs : x.fmt = "F32"}}
    \cup {Packet(FALSE, "ok", b, <<b.loud>>) :
            b \in {x \in BufferSpecs : x.fmt = "S16"}}

\* the call on a WAV
WavCall(wav, rate, volume) ==
  /\ lastOp = NoOp
  /\ lastOp' = [op |-> "write_pcm16_wav", input |-> [kind |-> "wav", wav |-> wav],
                rate |-> rate, volume |-> volume,
                ret |-> write_pcm16_wav_from_any([kind |-> "wav", wav |-> wav],
                                                 rate, volume)]
  /\ UNCHANGED <<sessions, cancel, started, everCreated, now, janitor, gets,
                 pushVars, lockVars>>

\* the call on bytes that are no WAV
DecodeCall(probe, packets, rate, volume) ==
  LET input == [kind |-> "other", probe |-> probe, sample_rate |-> 44100,
                channels |-> 1, packets |-> packets]
  IN /\ lastOp = NoOp
     /\ lastOp' = [op |-> "write_pcm16_wav", input |-> input,
                   rate |-> rate, volume |-> volume,
                   ret |-> write_pcm16_wav_from_any(input, rate, volume)]
     /\ UNCHANGED <<sessions, cancel, started, everCreated, now, janitor, gets,
                    pushVars, lockVars>>

NextAudio ==
  \/ /\ lastOp = NoOp
     /\ \E f \in WavFormats, c \in ChannelCounts, sr \in InputRates :
       \E ss \in SeqsUpTo(StoredSamples(f.sample_format, f.bits_per_sample),
                          MaxSamples) :
         \E r \in RateArgs, v \in Volumes :
           WavCall([sample_format |-> f.sample_format,
                    bits_per_sample |-> f.bits_per_sample,
                    channels |-> c, sample_rate |-> sr, samples |-> ss], r, v)
  \/ /\ lastOp = NoOp
     /\ \E probe \in BOOLEAN, ps \in SeqsUpTo(Packets, MaxPackets) :
       \E r \in RateArgs, v \in Volumes :
         (probe \/ ps = <<>>) /\ DecodeCall(probe, ps, r, v)

SpecAudio == Init /\ [][NextAudio]_vars

IsWrite == lastOp.op = "write_pcm16_wav"

\* the packets of the call that gave samples or at least a buffer spec
Converted(packets) ==
  {i \in DOMAIN packets :
     packets[i].track /\ packets[i].decode = "ok"
       /\ packets[i].fmt \in DecodedFormats}

\* the sample rate of the input: of the WAV header, or the last one observed
InputRate(input) ==
  IF input.kind = "wav" THEN input.wav.sample_rate
  ELSE IF Converted(input.packets) = {} THEN input.sample_rate
  ELSE input.packets[Max(Converted(input.packets))].rate

\* floor(2^(r/10) * 2^24) for r = -10 .. 10
ExactFactor(r) ==
  << 8388608, 8990687, 9635980, 10327587, 11068834, 11863283, 12714752,
     13627333, 14605414, 15653696, 16777216, 17981374, 19271960, 20655175,
     22137669, 23726566, 25429504, 27254667, 29210829, 31307392,
     33554432 >>[r + 11]

\* floor(16 * in_rate * 2^(r/10)), up to the last unit
Scaled16(in_rate, r) ==
  in_rate * (ExactFactor(r) \div Pow2(20))
    + MulDiv(ExactFactor(r) % Pow2(20), in_rate, Pow2(20)).q

\* out is clamp(n, 8000, 192000) for an integer n nearest to
\* in_rate * 2^(r/10), up to the error of single precision (1/8)
IsScaledRate(out, in_rate, r) ==
  \E n \in (Scaled16(in_rate, r) \div 16 - 1) .. (Scaled16(in_rate, r) \div 16 + 2) :
    /\ Abs(16 * n - Scaled16(in_rate, r)) <= 10
    /\ out = Clamp(n, 8000, 192000)

\* C22 as stated: for every rate_adjust in [-10, 10], 0 included, the
\* output sample rate is clamp(round(input_rate * 2^(rate_adjust/10)),
\* 8000, 192000), whatever the volume.
C22_RateClampedAlways ==
  (IsWrite /\ lastOp.ret.ok /\ lastOp.rate \in -10 .. 10) =>
    IsScaledRate(lastOp.ret.file.sample_rate, InputRate(lastOp.input), lastOp.rate)

\* C22: for every rate_adjust other than 0 (clamped to [-10, 10]) the output
\* sample rate is clamp(round(input_rate * 2^(rate_adjust/10)), 8000,
\* 192000), rounded in single precision; for rate_adjust 0 it is the input
\* sample rate, also below 8000 and above 192000; the volume has no part.
C22_RateScaled ==
  (IsWrite /\ lastOp.ret.ok) =>
    LET r == Clamp(lastOp.rate, -10, 10)
        out == lastOp.ret.file.sample_rate
    IN IF r = 0 THEN out = InputRate(lastOp.input)
       ELSE IsScaledRate(out, InputRate(lastOp.input), r)

\* a WAV of 200000 Hz passed with rate_adjust 0 and volume 53, and one of
\* 6012 Hz scaled by 2^(8/10), where single precision rounds up
C22_Witness ==
  /\ IsWrite /\ lastOp.ret.ok /\ lastOp.input.kind = "wav"
  /\ \/ /\ lastOp.rate = 0 /\ lastOp.volume = 53
        /\ lastOp.input.wav.sample_rate = 200000
        /\ lastOp.ret.file.sample_rate = 200000
     \/ /\ lastOp.rate = 8 /\ lastOp.input.wav.sample_rate = 6012
        /\ lastOp.ret.file.sample_rate = 10468

\* the value a stored WAV sample has on the 16-bit scale, as a fraction
\* num / den: integer samples shifted to 16 bits (8-bit ones recentred
\* first), float samples times 32767
Equiv16(wav, x) ==
  IF wav.sample_format = "Float"
    THEN [num |-> x * 32767, den |-> Pow2(FloatBits)]
  ELSE IF wav.bits_per_sample = 8 THEN [num |-> (x - 128) * 256, den |-> 1]
  ELSE [num |-> x, den |-> Pow2(wav.bits_per_sample - 16)]

\* |out - clamp(num / den, -32768, 32767)| <= 1, in integers
WithinOneLsb(out, e) ==
  LET q == e.num \div e.den
      exact == e.num % e.den = 0
  IN IF q >= 32767 THEN out >= 32766
     ELSE IF q < -32768 THEN out <= -32767
     ELSE out - 1 <= q /\ (q <= out \/ (q = out + 1 /\ exact))

\* C23: a WAV passed with rate_adjust 0 and volume 100 comes out with the
\* same channel count, sample rate and number of samples, each sample within
\* 1 LSB of the input sample's value on the 16-bit scale.
C23_WavPreserved ==
  (IsWrite /\ lastOp.input.kind = "wav" /\ lastOp.rate = 0 /\ lastOp.volume = 100) =>
    LET wav == lastOp.input.wav
        out == lastOp.ret.file
    IN /\ lastOp.ret.ok
       /\ out.channels = wav.channels
       /\ out.sample_rate = wav.sample_rate
       /\ Len(out.samples) = Len(wav.samples)
       /\ \A i \in DOMAIN wav.samples :
            WithinOneLsb(out.samples[i], Equiv16(wav, wav.samples[i]))

\* the stored value of silence
WavSilence(wav) == IF wav.bits_per_sample = 8 /\ wav.sample_format = "Int" THEN 128 ELSE 0
PacketSilence(p) == IF p.fmt = "U8" THEN 128 ELSE 0

\* the input samples that reach the output, counted packet by packet
RECURSIVE SamplesUpTo(_, _)
SamplesUpTo(packets, n) ==
  IF n = 0 THEN 0
  ELSE SamplesUpTo(packets, n - 1)
         + (IF n \in Converted(packets) THEN Len(packets[n].samples) ELSE 0)

SamplesIn(input) ==
  IF input.kind = "wav" THEN Len(input.wav.samples)
  ELSE SamplesUpTo(input.packets, Len(input.packets))

IsSilent(input) ==
  IF input.kind = "wav"
    THEN \A i \in DOMAIN input.wav.samples :
           input.wav.samples[i] = WavSilence(input.wav)
  ELSE \A n \in Converted(input.packets) :
         \A i \in DOMAIN input.packets[n].samples :
           input.packets[n].samples[i] = PacketSilence(input.packets[n])

\* C24: at every volume and rate_adjust, an input of silence (zero samples;
\* 128 for unsigned 8-bit ones) in a supported format is written as 16-bit
\* samples that are all zero, as many as the input has.
C24_SilenceStaysSilent ==
  (IsWrite /\ IsSilent(lastOp.input) /\ SamplesIn(lastOp.input) > 0
     /\ (lastOp.input.kind = "wav" \/ lastOp.input.probe)) =>
    /\ lastOp.ret.ok
    /\ Len(lastOp.ret.file.samples) = SamplesIn(lastOp.input)
    /\ \A i \in DOMAIN lastOp.ret.file.samples : lastOp.ret.file.samples[i] = 0

\* two silent 8-bit samples of a WAV at volume 255, and a silent U8 packet
\* followed by a silent F32 packet, both written as zeros
C24_Witness ==
  /\ IsWrite /\ lastOp.ret.ok /\ lastOp.volume = 255 /\ lastOp.rate # 0
  /\ lastOp.ret.file.samples = <<0, 0>>
  /\ \/ /\ lastOp.input.kind = "wav"
        /\ lastOp.input.wav.bits_per_sample = 8
        /\ lastOp.input.wav.samples = <<128, 128>>
     \/ /\ lastOp.input.kind = "other"
        /\ Len(lastOp.input.packets) = 2
        /\ lastOp.input.packets[1].fmt = "U8"
        /\ lastOp.input.packets[1].samples = <<128>>
        /\ lastOp.input.packets[2].fmt = "F32"
        /\ lastOp.input.packets[2].samples = <<0>>

----------------------------------------------------------------------------
(* The routes of the session server. A URL and a path are sequences of     *)
(* their parts; a session id is written as ToString of its number.         *)

\* the port the listener was bound to (tts_streaming_server.rs:38)
PortText == "49152"

StreamPrefix == <<"/", "tts-stream", "/">>

\* a URL with the prefix of the written contract
get_stream_url_Unprefixed(session_id) ==
  <<"http://", "127.0.0.1", ":", PortText, "/", "stream", "/", ToString(session_id)>>

\* format!("http://127.0.0.1:{}/tts-stream/{}", self.port, session_id)
get_stream_url(session_id) ==
  <<"http://", "127.0.0.1", ":", PortText>> \o StreamPrefix \o <<ToString(session_id)>>

\* req.uri().path() of a request for url: what follows the authority
UriPath(url) == SubSeq(url, 5, Len(url))

\* path.strip_prefix("/tts-stream/").unwrap_or("")
StripStreamPrefix(path) ==
  IF IsPrefix(StreamPrefix, path) THEN SubSeq(path, Len(StreamPrefix) + 1, Len(path))
  ELSE <<>>

\* the key of the registry that a text names; NoSession when it names none
NoSession == 0
SessionNamed(text) ==
  IF \E id \in SessionIds : text = <<ToString(id)>>
    THEN CHOOSE id \in SessionIds : text = <<ToString(id)>>
  ELSE NoSession

Methods == {"GET", "POST"}

\* the paths requested: the URL of each session, the same under /stream/,
\* the prefix alone, the prefix without its last slash, a longer path, the
\* root
RequestPaths ==
  {UriPath(get_stream_url(id)) : id \in SessionIds}
    \cup {<<"/", "stream", "/", ToString(id)>> : id \in SessionIds}
    \cup {StreamPrefix, <<"/", "tts-stream">>, <<"/">>,
          StreamPrefix \o <<"1", "/", "x">>}

\* the first arm of the match of handle_request
IsStreamRequest(method, path) == method = "GET" /\ IsPrefix(StreamPrefix, path)

\* a router that looks at the path only
handle_request_AnyMethod(h, method, path) ==
  /\ h \notin DOMAIN gets
  /\ LET sid == SessionNamed(StripStreamPrefix(path))
         reply ==
           IF IsPrefix(StreamPrefix, path)
             THEN IF sid \in DOMAIN sessions
                    THEN [NewGet(sid) EXCEPT !.format = sessions[sid].format]
                  ELSE [NewGet(sid) EXCEPT !.pc = "done", !.status = 404]
           ELSE [NewGet(NoSession) EXCEPT !.pc = "done", !.status = 404]
     IN gets' = (h :> (reply @@ [method |-> method, path |-> path,
                                 live |-> DOMAIN sessions,
                                 route |-> IF IsPrefix(StreamPrefix, path)
                                             THEN "stream" ELSE "catch_all"]))
                  @@ gets
  /\ UNCHANGED <<sessions, cancel, started, everCreated, now, janitor, pushVars, lockVars>>
  /\ lastOp' = NoOp

\* handle_request: a GET under /tts-stream/ goes to handle_tts_stream with
\* the rest of the path as session id (its lookup is GetLookup); everything
\* else is answered 404 "Not Found". Kept for the properties: the request,
\* the arm taken, the sessions registered when it came in.
handle_request(h, method, path) ==
  /\ h \notin DOMAIN gets
  /\ LET sid == SessionNamed(StripStreamPrefix(path))
         reply ==
           IF IsStreamRequest(method, path)
             THEN IF sid \in DOMAIN sessions
                    THEN [NewGet(sid) EXCEPT !.format = sessions[sid].format]
                  ELSE [NewGet(sid) EXCEPT !.pc = "done", !.status = 404]
           ELSE [NewGet(NoSession) EXCEPT !.pc = "done", !.status = 404]
     IN gets' = (h :> (reply @@ [method |-> method, path |-> path,
                                 live |-> DOMAIN sessions,
                                 route |-> IF IsStreamRequest(method, path)
                                             THEN "stream" ELSE "catch_all"]))
                  @@ gets
  /\ UNCHANGED <<sessions, cancel, started, everCreated, now, janitor, pushVars, lockVars>>
  /\ lastOp' = NoOp

\* a call of get_stream_url
GetStreamUrlCall(id) ==
  /\ lastOp = NoOp
  /\ lastOp' = [op |-> "get_stream_url", id |-> id, ret |-> get_stream_url(id)]
  /\ UNCHANGED <<sessions, cancel, started, everCreated, now, janitor, gets,
                 pushVars, lockVars>>

\* the session server with its requests routed, the clock at rest
NextRoutes ==
  \/ Cardinality(everCreated) < MaxSessions
       /\ \E f \in SessionFormats : create_session(f)
  \/ \E id \in SessionIds : stop_session(id)
  \/ \E id \in SessionIds : GetStreamUrlCall(id)
  \/ \E h \in Conns, m \in Methods, p \in RequestPaths : handle_request(h, m, p)
  \/ \E h \in DOMAIN gets : GetMarkStarted(h)
  \/ \E h \in DOMAIN gets : GetUpstreamFailed(h)
  \/ \E h \in DOMAIN gets : GetUpstreamRejected(h)
  \/ \E h \in DOMAIN gets, resp \in GetUpstreams : GetUpstreamOk(h, resp)
  \/ \E h \in DOMAIN gets : BodyPoll(h)
  \/ \E h \in DOMAIN gets : BodyNextChunk(h)
  \/ \E h \in DOMAIN gets : BodyNextError(h)
  \/ \E h \in DOMAIN gets : BodyNextNone(h)
  \/ \E h \in DOMAIN gets : ClientDisconnect(h)

SpecRoutes == Init /\ [][NextRoutes]_vars

\* request h asked with GET for exactly the path of url, while session id
\* was registered
AskedFor(h, url, id) ==
  /\ gets[h].method = "GET"
  /\ gets[h].path = UriPath(url)
  /\ id \in gets[h].live

\* request h went to the stream handler for session id and was not
\* answered 404
ServedAs(h, id) ==
  /\ gets[h].route = "stream"
  /\ gets[h].sid = id
  /\ gets[h].status # 404
  /\ gets[h].pc = "done" => gets[h].status \in {200, 500, 502}

C27_CatchAll ==
  [][\A h \in Conns, m \in Methods, p \in RequestPaths :
       (handle_request(h, m, p) /\ ~(m = "GET" /\ IsPrefix(StreamPrefix, p))) =>
         /\ gets'[h].status = 404
         /\ gets'[h].pc = "done"
         /\ gets'[h].http = "none"
         /\ gets'[h].route = "catch_all"
         /\ UNCHANGED <<sessions, cancel, started>>]_vars

\* a POST to the URL of a registered session, and a GET to /stream/1,
\* both answered 404 by the catch-all arm
C27_Witness ==
  \E h \in DOMAIN gets :
    /\ gets[h].route = "catch_all"
    /\ gets[h].status = 404
    /\ 1 \in gets[h].live
    /\ \/ gets[h].method = "POST" /\ gets[h].path = UriPath(get_stream_url(1))
       \/ gets[h].method = "GET" /\ gets[h].path = <<"/", "stream", "/", "1">>

----------------------------------------------------------------------------
(* Independence of sessions and of relays: several relays side by side and *)
(* several sessions side by side, each subsystem followed with the other   *)
(* at rest.                                                                *)

NextSideBySide ==
  \/ ServerAtRest /\ NextStarts
  \/ streamCounter = 0 /\ NextServer

SpecSideBySide == Init /\ [][NextSideBySide]_vars

\* a step of an operation on session id: stop_session(id), or a step of a
\* GET for id, from its lookup to the end of its body
StepAboutSession(id) ==
  \/ stop_session(id)
  \/ \E h \in Conns : GetLookup(h, id)
  \/ \E h \in DOMAIN gets :
       /\ gets[h].sid = id
       /\ \/ GetMarkStarted(h) \/ GetUpstreamFailed(h) \/ GetUpstreamRejected(h)
          \/ \E resp \in GetUpstreams : GetUpstreamOk(h, resp)
          \/ BodyPoll(h) \/ BodyNextChunk(h) \/ BodyNextError(h) \/ BodyNextNone(h)
          \/ ClientDisconnect(h)

\* a step of an operation on relay id: openai_stream_stop(id), or a step
\* of the task of stream id, up to its termination
StepAboutRelay(id) ==
  \/ openai_stream_stop(id)
  \/ RelaySendFailed(id)
  \/ \E up \in ShortUpstreams : RelaySendOk(id, up)
  \/ SelectCancelled(id) \/ SelectStreamEnd(id) \/ SpeechChunk(id)
  \/ RelayOnRemove(id)

\* the value of a map at a key, None when the key is absent
At(map, k) == IF k \in DOMAIN map THEN Some(map[k]) ELSE None

SessionUntouched(j) ==
  /\ At(sessions', j) = At(sessions, j)
  /\ At(cancel', j) = At(cancel, j)
  /\ At(started', j) = At(started, j)

RelayUntouched(j) ==
  /\ (j \in stoppers') = (j \in stoppers)
  /\ At(rx', j) = At(rx, j)
  /\ At(relay', j) = At(relay, j)
  /\ At(events', j) = At(events, j)

\* C28: stop_session(id), openai_stream_stop(id), a GET for id and the
\* termination of stream id change at most the registry entry, the flags,
\* the handle and the event sequence of id: the entry, the flags, the
\* handle, the task and the emitted events of every other session or relay
\* are the same after each of their steps.
C28_Independent ==
  [][/\ \A id \in SessionIds :
          StepAboutSession(id) => \A j \in SessionIds \ {id} : SessionUntouched(j)
     /\ \A id \in 1..MaxStarts :
          StepAboutRelay(id) => \A j \in (1..MaxStarts) \ {id} : RelayUntouched(j)]_vars

\* session 1 was stopped while session 2 stays registered, unstarted and
\* uncancelled; or relay 1 was stopped and has left while relay 2 still
\* holds its handle and has emitted nothing but its own events
C28_Witness ==
  \/ /\ 1 \in everCreated \ DOMAIN sessions /\ cancel[1]
     /\ 2 \in DOMAIN sessions /\ ~cancel[2] /\ ~started[2]
     /\ lastOp.op = "stop_session" /\ lastOp.id = 1 /\ lastOp.ret
  \/ /\ stopRet = [id |-> 1, ret |-> TRUE]
     /\ 1 \in DOMAIN relay /\ relay[1].pc = "done"
     /\ 2 \in stoppers /\ 2 \in DOMAIN relay /\ relay[2].pc # "done"
     /\ rx[2] # "sent"

----------------------------------------------------------------------------
(* Who writes the cancel flag.                                             *)

\* a step of the idle cleanup task or of cleanup_idle that removes entries
EvictionStep ==
  /\ JanitorRemove \/ \E ttl \in CleanupTtls : cleanup_idle(ttl)
  /\ DOMAIN sessions' # DOMAIN sessions

Evicted == DOMAIN sessions \ DOMAIN sessions'

\* C29 as stated: an eviction by the idle cleanup task or by cleanup_idle
\* sets the cancel flag of every session it removes, and the flag of a
\* session changes only in a stop_session step or in an eviction.
C29_EvictionCancels ==
  [][/\ EvictionStep => \A id \in Evicted : cancel'[id]
     /\ \A id \in DOMAIN cancel :
          cancel'[id] # cancel[id] => (stop_session(id) \/ EvictionStep)]_vars

\* C29: an eviction by the idle cleanup task or by cleanup_idle removes the
\* entries and writes no cancel flag, so the flag of an evicted session
\* stays false; the flag of a session changes only in a stop_session step
\* for that session.
C29_OnlyStopCancels ==
  [][/\ EvictionStep => (cancel' = cancel /\ \A id \in Evicted : ~cancel'[id])
     /\ \A id \in DOMAIN cancel :
          cancel'[id] # cancel[id] => stop_session(id)]_vars

\* cleanup_idle has just evicted a session, whose cancel flag is false,
\* while another session was stopped and has its flag set
C29_Witness ==
  /\ lastOp.op = "cleanup_idle" /\ lastOp.ret = 1
  /\ \E id \in everCreated \ DOMAIN sessions : ~cancel[id] /\ ~started[id]
  /\ \E id \in everCreated \ DOMAIN sessions : cancel[id]

----------------------------------------------------------------------------
(* create_session.                                                         *)

\* count_sessions: guard.len()
count_sessions == Cardinality(DOMAIN sessions)

\* C30: create_session returns an id that no earlier call returned, inserts
\* one entry under it, with started and cancel false, makes count_sessions
\* one more, and leaves every entry and flag that was there as it was.
C30_CreateSession ==
  [][\A f \in SessionFormats :
       create_session(f) =>
         LET id == lastOp'.id
         IN /\ id \notin everCreated
            /\ id \notin DOMAIN sessions
            /\ DOMAIN sessions' = DOMAIN sessions \cup {id}
            /\ sessions'[id].format = f
            /\ ~started'[id] /\ ~cancel'[id]
            /\ count_sessions' = count_sessions + 1
            /\ \A j \in DOMAIN sessions : sessions'[j] = sessions[j]
            /\ \A j \in DOMAIN cancel :
                 cancel'[j] = cancel[j] /\ started'[j] = started[j]]_vars

\* the second session has just been created, after the first one was
\* fetched and then stopped: it is the only entry, with both flags false
C30_Witness ==
  /\ lastOp = [op |-> "create_session", id |-> 2]
  /\ DOMAIN sessions = {2}
  /\ ~started[2] /\ ~cancel[2]
  /\ started[1] /\ cancel[1]

----------------------------------------------------------------------------
(* The administrative calls under the sessions lock. cleanup_idle is       *)
(* followed guard by step: the lock(), the collection of the keys (which   *)
(* loads the started flags), the removals with the return that drops the   *)
(* guard. Every other operation that locks the map waits meanwhile; the    *)
(* stores and loads of the flags and the upstream traffic do not.          *)

SessionsLockFree == ~tasks.admin.holds

\* cleanup_idle, line 137: self.sessions.lock()
CleanupIdleLock(ttl) ==
  /\ tasks.admin.pc = "idle"
  /\ tasks' = [tasks EXCEPT !.admin = [pc |-> "locked", holds |-> TRUE, ttl |-> ttl,
                                       keys |-> {},
                                       before |-> Cardinality(DOMAIN sessions)]]
  /\ UNCHANGED <<slot, built, registry, locks, pushVars, sessions, cancel, started,
                 everCreated, now, janitor, gets>>
  /\ lastOp' = NoOp

\* a cleanup_idle that gives the guard back after its collection
CleanupIdleCollect_Unlocking ==
  /\ tasks.admin.pc = "locked"
  /\ tasks' = [tasks EXCEPT !.admin.pc = "collected", !.admin.holds = FALSE,
                            !.admin.keys =
                              {k \in DOMAIN sessions : Idle(k, tasks.admin.ttl)}]
  /\ UNCHANGED <<slot, built, registry, locks, pushVars, sessions, cancel, started,
                 everCreated, now, janitor, gets>>
  /\ lastOp' = NoOp

\* lines 138-146: the keys with age > ttl && !started, collected
CleanupIdleCollect ==
  /\ tasks.admin.pc = "locked"
  /\ tasks' = [tasks EXCEPT !.admin.pc = "collected",
                            !.admin.keys =
                              {k \in DOMAIN sessions : Idle(k, tasks.admin.ttl)}]
  /\ UNCHANGED <<slot, built, registry, locks, pushVars, sessions, cancel, started,
                 everCreated, now, janitor, gets>>
  /\ lastOp' = NoOp

\* lines 147-151: guard.remove(&k) and removed += 1 for each key, then the
\* return, which drops the guard
CleanupIdleRemove ==
  /\ tasks.admin.pc = "collected"
  /\ sessions' = RemoveKeys(sessions, tasks.admin.keys)
  /\ lastOp' = [op |-> "cleanup_idle", ttl |-> tasks.admin.ttl,
                ret |-> Cardinality(tasks.admin.keys)]
  /\ tasks' = [tasks EXCEPT !.admin.pc = "idle", !.admin.holds = FALSE]
  /\ UNCHANGED <<slot, built, registry, locks, pushVars, cancel, started,
                 everCreated, now, janitor, gets>>

\* count_sessions(): lock, len, unlock
CountSessionsCall ==
  /\ SessionsLockFree
  /\ lastOp' = [op |-> "count_sessions", ret |-> count_sessions]
  /\ UNCHANGED <<sessions, cancel, started, everCreated, now, janitor, gets,
                 pushVars, lockVars>>

\* the server with the administrative calls; whoever locks the map waits
\* while cleanup_idle holds the guard
NextAdmin ==
  \/ \E ttl \in CleanupTtls : CleanupIdleLock(ttl)
  \/ CleanupIdleCollect
  \/ CleanupIdleRemove
  \/ CountSessionsCall
  \/ SessionsLockFree /\ Cardinality(everCreated) < MaxSessions
       /\ \E f \in SessionFormats : create_session(f)
  \/ SessionsLockFree /\ \E id \in SessionIds : stop_session(id)
  \/ Tick
  \/ SessionsLockFree /\ JanitorScan
  \/ SessionsLockFree /\ JanitorRemove
  \/ SessionsLockFree /\ \E h \in Conns, sid \in SessionIds : GetLookup(h, sid)
  \/ \E h \in DOMAIN gets : GetMarkStarted(h)
  \/ \E h \in DOMAIN gets : GetUpstreamFailed(h)
  \/ \E h \in DOMAIN gets : GetUpstreamRejected(h)
  \/ \E h \in DOMAIN gets, resp \in GetUpstreams : GetUpstreamOk(h, resp)
  \/ \E h \in DOMAIN gets :
       /\ GetIn(h, "poll")
       /\ SessionsLockFree \/ ~cancel[gets[h].sid]
       /\ BodyPoll(h)
  \/ \E h \in DOMAIN gets : BodyNextChunk(h)
  \/ SessionsLockFree /\ \E h \in DOMAIN gets : BodyNextError(h)
  \/ SessionsLockFree /\ \E h \in DOMAIN gets : BodyNextNone(h)
  \/ \E h \in DOMAIN gets : ClientDisconnect(h)

SpecAdmin == Init /\ [][NextAdmin]_vars

\* the registry and the flags belong together: what is registered was
\* created, every session created has its two flags, and a registered
\* session is not cancelled
RegistryConsistent ==
  /\ DOMAIN sessions \subseteq everCreated
  /\ DOMAIN cancel = everCreated /\ DOMAIN started = everCreated
  /\ \A id \in DOMAIN sessions : ~cancel[id] /\ sessions[id].created_at <= now

\* C31: cleanup_idle returns the number of entries it removed, and
\* count_sessions after it is count_sessions at its lock() minus that
\* number; between its lock() and its return no other operation changes the
\* registry, whatever create_session, stop_session, the GET handlers and the
\* cleanup task attempt; count_sessions returns the size of the registry and
\* changes nothing; the registry is consistent in every state.
C31_AdminAtomic ==
  /\ [][/\ lastOp'.op = "cleanup_idle" =>
             /\ lastOp'.ret = Cardinality(DOMAIN sessions \ DOMAIN sessions')
             /\ DOMAIN sessions' \subseteq DOMAIN sessions
             /\ count_sessions' = tasks.admin.before - lastOp'.ret
             /\ \A k \in DOMAIN sessions' : sessions'[k] = sessions[k]
        /\ (tasks.admin.pc # "idle" /\ tasks'.admin.pc # "idle") =>
             sessions' = sessions
        /\ lastOp'.op = "count_sessions" =>
             /\ lastOp'.ret = Cardinality(DOMAIN sessions)
             /\ sessions' = sessions]_vars
  /\ []RegistryConsistent

\* cleanup_idle(0) has returned 1 and emptied the registry, with a GET
\* handler at work that had looked the removed session up before
C31_Witness ==
  /\ lastOp = [op |-> "cleanup_idle", ttl |-> 0, ret |-> 1]
  /\ count_sessions = 0
  /\ tasks.admin.before = 1
  /\ \E id \in everCreated : started[id] /\ ~cancel[id] /\ id \notin DOMAIN sessions
  /\ \E h \in DOMAIN gets : gets[h].pc = "send"

-----------------------------------------------------------------------------
(* SSE streams built from whole events (tts_openai.rs:256-276): an upstream *)
(* that sends up to MaxSseEvents events, each of one kind, cut into network *)
(* chunks at any byte.                                                      *)

MaxSseEvents == 2

\* the events without effect: no data line, a payload that is not JSON, a
\* JSON payload of another type
IgnoredKinds == {"comment", "notjson", "other"}

EventKinds == {"delta", "done", "completed"} \cup IgnoredKinds

\* the bytes of one event of a kind
EventBytes(kind) ==
  CASE kind = "delta" -> SseEvent(JsonDelta)
    [] kind = "done" -> SseEvent(DonePayload)
    [] kind = "completed" -> SseEventCrlf(JsonCompleted)
    [] kind = "comment" -> SseComment
    [] kind = "notjson" -> SseEvent(NotJson)
    [] kind = "other" -> SseEvent(JsonOther)

RECURSIVE StreamOf(_)
StreamOf(kinds) ==
  IF kinds = <<>> THEN <<>> ELSE EventBytes(Head(kinds)) \o StreamOf(Tail(kinds))

KindLists == SeqsUpTo(EventKinds, MaxSseEvents)

EventStreams == {StreamOf(kinds) : kinds \in KindLists}

\* one start with the default format: the format plays no part in the loop
NextSseEvents ==
  \/ streamCounter = 0 /\ responses_stream_start(None)
  \/ \E id \in 1..streamCounter : openai_stream_stop(id)
  \/ \E id \in DOMAIN relay : RelaySendFailed(id)
  \/ \E id \in DOMAIN relay, up \in EventStreams : RelaySendOk(id, up)
  \/ \E id \in DOMAIN relay : SelectCancelled(id)
  \/ \E id \in DOMAIN relay : SelectReadError(id)
  \/ \E id \in DOMAIN relay : SelectStreamEnd(id)
  \/ \E id \in DOMAIN relay : \E n \in 1..Len(relay[id].up) : ResponsesChunk(id, n)
  \/ \E id \in DOMAIN relay : RelayOnRemove(id)

SpecSseEvents == Init /\ [][NextSseEvents]_vars

\* the kinds of the events of a response
KindsOf(resp) == CHOOSE kinds \in KindLists : StreamOf(kinds) = resp

\* the kinds of the events an SSE relay has taken out of its buffer
ParsedKinds(id) ==
  LET kinds == KindsOf(relay[id].resp)
      k == CHOOSE k \in 0..Len(kinds) : StreamOf(Take(kinds, k)) = Parsed(id)
  IN Take(kinds, k)

IsUsed(kind) == kind \notin IgnoredKinds

\* what the events of a kind list give, the ignored ones left out
RECURSIVE EventsOfKinds(_, _)
EventsOfKinds(id, kinds) ==
  IF kinds = <<>> THEN <<>>
  ELSE (CASE Head(kinds) = "delta" -> <<EvChunk(id, DeltaString(ParseJson(JsonDelta)))>>
          [] Head(kinds) \in {"done", "completed"} -> <<EvEnd(id)>>
          [] OTHER -> <<>>) \o EventsOfKinds(id, Tail(kinds))

\* the events of a relay after start, less the one its select! ended with
LoopEvents(id) ==
  LET n == Len(events[id]) - (IF relay[id].pc \in {"exit", "done"} THEN 1 ELSE 0)
  IN SubSeq(events[id], 2, n)

SseRelays == {id \in DOMAIN relay : relay[id].kind = "responses" /\ relay[id].http = "ok"}

\* C32: in an SSE relay an event with no data line, with a payload that is
\* not JSON, or with a JSON payload of another type than delta and completed
\* emits no event and does not end the relay, and the events after it are
\* processed as if it had not been there: the events of the loop are those
\* of the parsed events with the ignored ones left out, a relay that has
\* left its loop did so with one terminal event of its select!, and the
\* inner loop does not stop at an ignored event.
C32_IgnoredEvents ==
  \A id \in SseRelays :
    /\ LoopEvents(id) = EventsOfKinds(id, SelectSeq(ParsedKinds(id), IsUsed))
    /\ relay[id].pc \in {"exit", "done"} =>
         /\ Len(events[id]) >= 2
         /\ Last(events[id]).name \in TerminalNames
    /\ (ParsedKinds(id) # <<>> /\ Last(ParsedKinds(id)) \in IgnoredKinds) =>
         ~find_sse_event_boundary(relay[id].buf).some

\* an ignored event was parsed in the same chunk as a delta event after it,
\* and the stream ended
C32_Witness ==
  \E id \in SseRelays :
    /\ KindsOf(relay[id].resp) = <<"notjson", "delta">>
    /\ relay[id].pc = "done"
    /\ events[id] = <<EvStart(id, relay[id].mime),
                      EvChunk(id, DeltaString(ParseJson(JsonDelta))),
                      EvEnd(id)>>

\* C33: in an SSE relay that has emitted no end yet, the exhaustion of the
\* upstream emits one end as the last event and leaves the loop, the bytes of
\* an incomplete event left in the buffer giving no chunk; a read error emits
\* one error as the last event and leaves the loop; and a relay that has left
\* its loop emits nothing more, so that no end follows the error.
C33_ExhaustionAndError ==
  [][\A id \in SseRelays :
       /\ (SelectStreamEnd(id) /\ ~HasTerminal(events[id])) =>
            /\ events'[id] = Append(events[id], EvEnd(id))
            /\ ChunkData(events'[id]) = DeltaStrings(Parsed(id))
            /\ relay'[id].pc = "exit"
       /\ (SelectReadError(id) /\ ~HasTerminal(events[id])) =>
            /\ events'[id] = Append(events[id], EvError(id, MsgStreamError))
            /\ relay'[id].pc = "exit"
       /\ relay[id].pc \in {"exit", "done"} => events'[id] = events[id]]_vars

\* the upstream ended in the middle of an event after an event without
\* chunk: start and end are all the relay emitted
C33_Witness ==
  \E id \in SseRelays :
    /\ relay[id].pc = "done"
    /\ relay[id].up = <<>>
    /\ relay[id].buf # <<>>
    /\ ~find_sse_event_boundary(relay[id].buf).some
    /\ events[id] = <<EvStart(id, relay[id].mime), EvEnd(id)>>

-----------------------------------------------------------------------------
(* consume_leading_newlines (tts_utils.rs:191-196) called on a buffer, and  *)
(* once more on the buffer the first call left.                             *)

ConsumeCall(buf) ==
  /\ lastOp = NoOp
  /\ lastOp' = [op |-> "consume_leading_newlines", arg |-> buf, again |-> FALSE,
                ret |-> consume_leading_newlines(buf).n,
                buf |-> consume_leading_newlines(buf).buf]
  /\ UNCHANGED <<sessions, cancel, started, everCreated, now, janitor, gets, pushVars, lockVars>>

ConsumeAgain ==
  /\ lastOp # NoOp
  /\ lastOp.op = "consume_leading_newlines"
  /\ ~lastOp.again
  /\ lastOp' = [op |-> "consume_leading_newlines", arg |-> lastOp.buf, again |-> TRUE,
                ret |-> consume_leading_newlines(lastOp.buf).n,
                buf |-> consume_leading_newlines(lastOp.buf).buf]
  /\ UNCHANGED <<sessions, cancel, started, everCreated, now, janitor, gets, pushVars, lockVars>>

NextConsume ==
  \/ lastOp = NoOp /\ \E buf \in Buffers : ConsumeCall(buf)
  \/ ConsumeAgain

SpecConsume == Init /\ [][NextConsume]_vars

IsSeparator(b) == b \in {LF, CR}

\* C34: consume_leading_newlines removes the longest prefix of "\n" and "\r"
\* bytes and nothing else and returns its length; the buffer it leaves is
\* empty or begins with another byte, and a second call on it returns 0 and
\* leaves it as it is.
C34_ConsumeSeparators ==
  (lastOp # NoOp /\ lastOp.op = "consume_leading_newlines") =>
    /\ lastOp.ret \in 0..Len(lastOp.arg)
    /\ \A i \in 1..lastOp.ret : IsSeparator(lastOp.arg[i])
    /\ lastOp.ret < Len(lastOp.arg) => ~IsSeparator(lastOp.arg[lastOp.ret + 1])
    /\ lastOp.buf = SubSeq(lastOp.arg, lastOp.ret + 1, Len(lastOp.arg))
    /\ lastOp.buf = <<>> \/ ~IsSeparator(Head(lastOp.buf))
    /\ lastOp.again => (lastOp.ret = 0 /\ lastOp.buf = lastOp.arg)

\* a second call on a buffer a first call left, which begins with another
\* byte and holds separators further on
C34_Witness ==
  /\ lastOp # NoOp
  /\ lastOp.op = "consume_leading_newlines"
  /\ lastOp.again
  /\ lastOp.arg = <<"a", LF, CR>>
  /\ lastOp.ret = 0

-----------------------------------------------------------------------------
(* The events of an SSE relay and the cut of the byte stream into chunks    *)
(* (tts_openai.rs:247-285).                                                 *)

\* the events of a relay whose response arrives as one chunk and then ends
WholeEvents(id, resp) ==
  <<EvStart(id, relay[id].mime)>> \o DrainEvents(id, resp, <<>>).out \o <<EvEnd(id)>>

\* the relay read its whole response and left the loop at the end of it
ReadToEnd(id) ==
  /\ relay[id].pc \in {"exit", "done"}
  /\ relay[id].up = <<>>
  /\ Last(events[id]).name = "end"

\* C35: the events an SSE relay emits depend on the bytes of the upstream
\* only and not on their cut into chunks: a relay that read its response to
\* the end has emitted the events it emits when the response arrives whole.
C35_ChunkingIndependent ==
  \A id \in SseRelays :
    ReadToEnd(id) => events[id] = WholeEvents(id, relay[id].resp)

\* the same for the responses in which no event stands behind a `[DONE]` or
\* completed event (holds in SpecSseEvents)
ChunkingIndependentUpToEnd ==
  \A id \in SseRelays :
    (ReadToEnd(id) /\ \A i \in 1..(Len(KindsOf(relay[id].resp)) - 1) :
         KindsOf(relay[id].resp)[i] \notin {"done", "completed"})
      => events[id] = WholeEvents(id, relay[id].resp)

-----------------------------------------------------------------------------
(* A GET handler in flight and the registry entry of its session            *)
(* (tts_streaming_server.rs:177-196, 258-286, 135-152, 67-90).              *)

\* the handler found its session and its response has not ended
InFlight(h) == gets[h].pc \in {"found", "send", "poll", "pull"}

\* the handler has answered 200 and its body has not ended
Delivering(h) == gets[h].pc \in {"poll", "pull"}

\* C36: while a GET handler is between its lookup of a session and the end of
\* its response body and stop_session has not been called for the session
\* (its cancel flag is clear), the session is in the registry.
C36_InFlightRegistered ==
  \A h \in DOMAIN gets :
    (InFlight(h) /\ ~cancel[gets[h].sid]) => gets[h].sid \in DOMAIN sessions

\* the same for the handlers whose body is delivering bytes only
DeliveringRegistered ==
  \A h \in DOMAIN gets :
    (Delivering(h) /\ ~cancel[gets[h].sid]) => gets[h].sid \in DOMAIN sessions

-----------------------------------------------------------------------------
(* The end of a session without stop_session                                *)
(* (tts_streaming_server.rs:67-90, 195-244, 258-286).                       *)

\* the steps of a GET handler that its runtime and its upstream take: the
\* store of started, the answer of the upstream, the poll of the body by
\* hyper and the result of the upstream read
HandlerSend == \E h \in DOMAIN gets : GetMarkStarted(h)

UpstreamAnswer ==
  \E h \in DOMAIN gets :
    \/ GetUpstreamFailed(h)
    \/ GetUpstreamRejected(h)
    \/ \E resp \in GetUpstreams : GetUpstreamOk(h, resp)

HyperPoll == \E h \in DOMAIN gets : BodyPoll(h)

UpstreamRead ==
  \E h \in DOMAIN gets : BodyNextChunk(h) \/ BodyNextError(h) \/ BodyNextNone(h)

\* time passes, the cleanup task and the handlers are scheduled, the
\* upstream answers, and a body that the client has not abandoned is polled
FairHandlers ==
  /\ FairServer
  /\ WF_vars(Tick)
  /\ WF_vars(HandlerSend) /\ WF_vars(UpstreamAnswer)
  /\ WF_vars(HyperPoll) /\ WF_vars(UpstreamRead)

InRegistry(id) == id \in DOMAIN sessions

Fetched(id) == IF id \in DOMAIN sessions THEN started[id] ELSE FALSE

\* C37: without a stop_session call every session leaves the registry in the
\* end: an unfetched one that is due for the cleanup task, and a fetched one
\* whatever the outcome of its GET.
C37_EventuallyRemoved ==
  \A id \in SessionIds : (DueForCleanup(id) \/ Fetched(id)) ~> ~InRegistry(id)

-----------------------------------------------------------------------------
(* Several GET requests for one session (tts_streaming_server.rs:173-235,   *)
(* 118-124): one session, MaxClients connections, no clock.                 *)

MaxClients == 2

Clients == 1..MaxClients

NextClients ==
  \/ everCreated = {} /\ \E f \in SessionFormats : create_session(f)
  \/ \E id \in SessionIds : stop_session(id)
  \/ \E h \in Clients, sid \in SessionIds : GetLookup(h, sid)
  \/ \E h \in DOMAIN gets : GetMarkStarted(h)
  \/ \E h \in DOMAIN gets : GetUpstreamFailed(h)
  \/ \E h \in DOMAIN gets : GetUpstreamRejected(h)
  \/ \E h \in DOMAIN gets, resp \in GetUpstreams : GetUpstreamOk(h, resp)
  \/ \E h \in DOMAIN gets : BodyPoll(h)
  \/ \E h \in DOMAIN gets : BodyNextChunk(h)
  \/ \E h \in DOMAIN gets : BodyNextError(h)
  \/ \E h \in DOMAIN gets : BodyNextNone(h)
  \/ \E h \in DOMAIN gets : ClientDisconnect(h)

SpecClients == Init /\ [][NextClients]_vars

\* the handler has sent its request to the upstream
Requested(h) ==
  gets[h].pc \in {"send", "poll", "pull", "closed"} \/ gets[h].http # "none"

\* the handlers that have sent an upstream request for a session
Requesters(id) == {h \in DOMAIN gets : gets[h].sid = id /\ Requested(h)}

\* C38 as stated: at most one upstream request is issued for a session,
\* however many GETs ask for it, and none is issued for an id once
\* stop_session(id) has returned true (which is when its cancel flag is set).
C38_OneUpstreamRequest ==
  /\ [](\A id \in SessionIds : Cardinality(Requesters(id)) <= 1)
  /\ [][\A h \in DOMAIN gets : GetMarkStarted(h) => ~cancel[gets[h].sid]]_vars

\* C38, amended: a GET handler sends an upstream request only for a session
\* its lookup found, so only when its lookup came before every removal of
\* the id and before a stop_session(id) that returned true; a GET answered 404
\* has sent none; each handler sends one request at most.
C38_RequestPerFoundGet ==
  /\ [](\A h \in DOMAIN gets :
          /\ Requested(h) =>
               (gets[h].found /\ ~gets[h].after_stop /\ ~gets[h].after_removal)
          /\ gets[h].status = 404 => ~Requested(h))
  /\ [][\A h \in DOMAIN gets :
          GetMarkStarted(h) => (~Requested(h) /\ Requested(h)' /\ gets[h].found)]_vars

\* two clients have sent an upstream request each for the same session: one
\* is delivering its body, the other sent its request after stop_session
\* had returned true
C38_Witness ==
  /\ Cardinality(Requesters(1)) = 2
  /\ \E h \in DOMAIN gets : gets[h].status = 200 /\ gets[h].body # <<>>
  /\ \E h \in DOMAIN gets : gets[h].pc = "send" /\ cancel[gets[h].sid]

-----------------------------------------------------------------------------
(* The cancelled event and the sender of the relay's channel                *)
(* (tts_openai.rs:95-113, 184-201, 249-285).                                *)

\* the relay task has not left its select! loop
Running(id) == relay[id].pc \in {"send", "loop"}

\* this step appends a cancelled event to the events of id
EmitsCancelled(id) ==
  /\ Len(events'[id]) > Len(events[id])
  /\ Last(events'[id]).name = "cancelled"

\* C39: a push relay emits cancelled only after openai_stream_stop(id) has
\* returned true: the value on the channel is sent by a stop call that
\* returns true and by nothing else, and while the relay task is running
\* its sender is not dropped, by the exit of another task or by a start call
\* for another id: it is in the table until a stop call takes it.
C39_CancelledOnlyAfterStop ==
  /\ [](\A id \in DOMAIN relay :
          Running(id) => (rx[id] # "closed" /\ (rx[id] = "open" <=> id \in stoppers)))
  /\ [][\A id \in DOMAIN relay : EmitsCancelled(id) => rx[id] = "sent"]_vars
  /\ [][\A id \in DOMAIN rx :
          (rx[id] # "sent" /\ rx'[id] = "sent") => stopRet' = [id |-> id, ret |-> TRUE]]_vars

\* the first relay was stopped and emitted cancelled while a relay started
\* after it is in its loop with its sender in the table
C39_Witness ==
  \E id \in DOMAIN relay : \E other \in DOMAIN relay :
    /\ other > id
    /\ events[id] # <<>> /\ Last(events[id]).name = "cancelled"
    /\ relay[id].pc = "done"
    /\ relay[other].pc = "loop" /\ rx[other] = "open" /\ other \in stoppers
====
